---- MODULE Spec2Model ----
(***************************************************************************)
(* Model of the Matrix terminal multiplexer's pane/layout engine:          *)
(* src/src/ui/window_manager.rs (LayoutNode, WindowManager) driven by the  *)
(* controller of src/src/app.rs (App).                                     *)
(*                                                                         *)
(* Modelling conventions                                                   *)
(*  - Option<T>: None is <<>>, Some(x) is <<x>>.                           *)
(*  - Uuid: fresh ids are the integers 1, 2, ... handed out by next_id     *)
(*    (Uuid::new_v4 never repeats an id).                                  *)
(*  - f32 ratios are kept as exact fractions <<num, den>>; for the ratios  *)
(*    the program uses (1/2, 1/k, 7/10) and extents below 2000 cells       *)
(*    floor(extent as f32 * ratio) equals (extent * num) \div den.         *)
(*  - HashMap iteration order is the variable order: a permutation of the  *)
(*    keys, arbitrary after an insert, kept by a removal.                  *)
(*  - PTY resize and kill are taken to succeed; shell spawn may fail.      *)
(*  - The sidebar stays shown (Ctrl+B is not taken), so the main area is   *)
(*    the terminal less the sidebar column from the first frame on.        *)
(***************************************************************************)
EXTENDS Integers, Sequences, FiniteSets, TLC

\* ---------------------------------------------------------------- bounds
\* Number of pane ids the controller may hand out in one run.
MaxPanes == 3
\* Number of pane ids in a run of splits and focus moves only (FocusSpec).
MaxFocusPanes == 4
MaxPresetPanes == 3
MaxGridPanes == 5
MaxSplitPanes == 3
MaxCyclePanes == 3
MaxGuiPanes == 5
MaxKeyPanes == 2
MaxCommandLen == 4
MaxChunks == 3
\* The capacity of the session's channel (100 in the code), scaled down.
QueueCapacity == 2
\* max_lines of the buffer under test (TerminalWindow::new passes 10000).
MaxLines == 2
\* Longest byte string over CoreBytes a single write is given.
MaxShortWrite == 2
\* Writes that would take the cursor column or a line's byte length beyond
\* these are not taken.
MaxCol == 3
MaxLineBytes == 3

\* ------------------------------------------------------- program constants
\* Sidebar::new: width of the sidebar column.
SidebarWidth == 3
\* App::new: WindowManager::new(Rect::new(0, 0, 80, 24)).
InitWidth == 80
InitHeight == 24

\* Host terminal sizes the draw callback may observe (f.size()).
TermSizes == { << InitWidth, InitHeight >> }

\* ---------------------------------------------------------------- Option
None == <<>>
Some(x) == <<x>>
IsSome(o) == o # <<>>
Unwrap(o) == o[1]

\* ------------------------------------------------------------ LayoutNode
Rect(x, y, w, h) == [x |-> x, y |-> y, width |-> w, height |-> h]

Window(id, rect) == [type |-> "Window", id |-> id, rect |-> rect]

Split(direction, ratio, first, second, rect) ==
  [type |-> "Split", direction |-> direction, ratio |-> ratio,
   first |-> first, second |-> second, rect |-> rect]

\* (extent as f32 * ratio).floor() as u16
FloorMul(extent, ratio) == (extent * ratio[1]) \div ratio[2]

\* SplitAreas with the second area placed at the origin of the outer rect
\* (the offset by the first area's extent forgotten).
SplitAreas_no_offset(direction, ratio, outer_rect) ==
  IF direction = "Horizontal"
  THEN LET left_width == FloorMul(outer_rect.width, ratio)
           right_width == outer_rect.width - left_width
       IN << Rect(outer_rect.x, outer_rect.y, left_width, outer_rect.height),
             Rect(outer_rect.x, outer_rect.y, right_width, outer_rect.height) >>
  ELSE LET top_height == FloorMul(outer_rect.height, ratio)
           bottom_height == outer_rect.height - top_height
       IN << Rect(outer_rect.x, outer_rect.y, outer_rect.width, top_height),
             Rect(outer_rect.x, outer_rect.y, outer_rect.width, bottom_height) >>

\* The two areas Layout::split yields for Length(a), Length(extent - a).
SplitAreas(direction, ratio, outer_rect) ==
  IF direction = "Horizontal"
  THEN LET left_width == FloorMul(outer_rect.width, ratio)
           right_width == outer_rect.width - left_width
       IN << Rect(outer_rect.x, outer_rect.y, left_width, outer_rect.height),
             Rect(outer_rect.x + left_width, outer_rect.y, right_width, outer_rect.height) >>
  ELSE LET top_height == FloorMul(outer_rect.height, ratio)
           bottom_height == outer_rect.height - top_height
       IN << Rect(outer_rect.x, outer_rect.y, outer_rect.width, top_height),
             Rect(outer_rect.x, outer_rect.y + top_height, outer_rect.width, bottom_height) >>

RECURSIVE calculate_layout(_, _)
calculate_layout(node, outer_rect) ==
  IF node.type = "Window"
  THEN [node EXCEPT !.rect = outer_rect]
  ELSE LET areas == SplitAreas(node.direction, node.ratio, outer_rect)
       IN [node EXCEPT !.rect = outer_rect,
                       !.first = calculate_layout(node.first, areas[1]),
                       !.second = calculate_layout(node.second, areas[2])]

\* Pre-order sequence of the leaf ids.
RECURSIVE window_ids(_)
window_ids(node) ==
  IF node.type = "Window" THEN << node.id >>
  ELSE window_ids(node.first) \o window_ids(node.second)

\* Rect of the first leaf (pre-order) carrying id, as an Option.
RECURSIVE window_rect(_, _)
window_rect(node, id) ==
  IF node.type = "Window"
  THEN IF node.id = id THEN Some(node.rect) ELSE None
  ELSE LET r == window_rect(node.first, id)
       IN IF IsSome(r) THEN r ELSE window_rect(node.second, id)

RECURSIVE layout_contains_window(_, _)
layout_contains_window(node, id) ==
  IF node.type = "Window" THEN node.id = id
  ELSE layout_contains_window(node.first, id) \/ layout_contains_window(node.second, id)

\* LayoutNode::split_window on a tree that contains id: the first leaf
\* carrying id (find_window_node) becomes a Split laid out over its rect.
RECURSIVE node_split_window(_, _, _, _, _)
node_split_window(node, id, direction, new_id, ratio) ==
  IF node.type = "Window"
  THEN IF node.id = id
       THEN calculate_layout(
              Split(direction, ratio, Window(id, node.rect),
                    Window(new_id, node.rect), node.rect),
              node.rect)
       ELSE node
  ELSE IF layout_contains_window(node.first, id)
       THEN [node EXCEPT !.first = node_split_window(node.first, id, direction, new_id, ratio)]
       ELSE [node EXCEPT !.second = node_split_window(node.second, id, direction, new_id, ratio)]

\* ------------------------------------------------------------- sequences
Range(s) == { s[i] : i \in 1..Len(s) }

Perms(S) == { s \in [1..Cardinality(S) -> S] : Range(s) = S }

RECURSIVE Without(_, _)
Without(s, x) ==
  IF s = << >> THEN << >>
  ELSE IF Head(s) = x THEN Without(Tail(s), x)
  ELSE << Head(s) >> \o Without(Tail(s), x)

Position(s, x) == CHOOSE i \in 1..Len(s) : s[i] = x


\* -------------------------------------------------------------- the state
VARIABLES
  layout,           \* WindowManager.layout: Option<LayoutNode>
  windows,          \* WindowManager.windows: id -> [size, focused]
  focused_window,   \* WindowManager.focused_window: Option<Uuid>
  area,             \* WindowManager.area
  zoomed_window,    \* WindowManager.zoomed_window: Option<Uuid>
  pre_zoom_layout,  \* WindowManager.pre_zoom_layout: Option<LayoutNode>
  order,            \* iteration order of windows.keys()
  next_id,          \* the next fresh Uuid
  sidebar_active,   \* Sidebar.active
  last,             \* history: the controller action that led here
  buffer,           \* a TerminalBuffer on its own (BufferSpec)
  buffer_last,      \* history: the buffer operation that led here
  pane,             \* a TerminalWindow with its session on its own (PaneSpec)
  app,              \* App.state, running, command_buffer; whether the loop has
                    \* been unwound by a panic; the last event handled
  gui               \* the LayoutManager of the GUI front end (GuiSpec)

vars == << layout, windows, focused_window, area, zoomed_window,
           pre_zoom_layout, order, next_id, sidebar_active, last,
           buffer, buffer_last, pane, app, gui >>

\* The WindowManager as one value, so that its methods compose.
SelfWM ==
  [layout |-> layout, windows |-> windows, focused_window |-> focused_window,
   area |-> area, zoomed_window |-> zoomed_window,
   pre_zoom_layout |-> pre_zoom_layout, order |-> order]

Commit(wm) ==
  /\ layout' = wm.layout
  /\ windows' = wm.windows
  /\ focused_window' = wm.focused_window
  /\ area' = wm.area
  /\ zoomed_window' = wm.zoomed_window
  /\ pre_zoom_layout' = wm.pre_zoom_layout
  /\ order' = wm.order

\* TerminalWindow::new(title, size)
TerminalWindow(size) == [size |-> size, focused |-> FALSE]

\* HashMap::insert of a fresh key; ord is the iteration order afterwards.
Insert(wm, id, window, ord) ==
  [wm EXCEPT !.windows = [k \in DOMAIN wm.windows \cup {id} |->
                            IF k = id THEN window ELSE wm.windows[k]],
             !.order = ord]

\* HashMap::remove: the other keys keep their relative order.
Remove(wm, id) ==
  [wm EXCEPT !.windows = [k \in DOMAIN wm.windows \ {id} |-> wm.windows[k]],
             !.order = Without(wm.order, id)]

\* ------------------------------------------------------- WindowManager
\* WindowManager::new(area)
WindowManager_new(a) ==
  [layout |-> None, windows |-> << >>, focused_window |-> None, area |-> a,
   zoomed_window |-> None, pre_zoom_layout |-> None, order |-> << >>]

\* focus_window that leaves the flag of the window focused before.
focus_window_keeps_flag(wm, id) ==
  IF id \notin DOMAIN wm.windows THEN wm
  ELSE [wm EXCEPT !.windows[id].focused = TRUE, !.focused_window = Some(id)]

\* WindowManager::focus_window; the manager is unchanged when it fails.
focus_window(wm, id) ==
  IF id \notin DOMAIN wm.windows THEN wm
  ELSE LET unfocused ==
             IF IsSome(wm.focused_window)
                /\ Unwrap(wm.focused_window) \in DOMAIN wm.windows
             THEN [wm.windows EXCEPT ![Unwrap(wm.focused_window)].focused = FALSE]
             ELSE wm.windows
       IN [wm EXCEPT !.windows = [unfocused EXCEPT ![id].focused = TRUE],
                     !.focused_window = Some(id)]

\* WindowManager::focused_window(): the id of the focused window, if that
\* window is in the map.
focused_id(wm) ==
  IF IsSome(wm.focused_window) /\ Unwrap(wm.focused_window) \in DOMAIN wm.windows
  THEN wm.focused_window ELSE None

\* apply_layout that resizes no window.
apply_layout_skipped(wm) == wm

\* WindowManager::apply_layout: every window that is a leaf of the layout
\* takes the rect of the first leaf carrying its id.
apply_layout(wm) ==
  IF wm.layout = None THEN wm
  ELSE LET node == Unwrap(wm.layout)
           ids == Range(window_ids(node))
       IN [wm EXCEPT !.windows =
             [k \in DOMAIN wm.windows |->
                IF k \in ids
                THEN [wm.windows[k] EXCEPT !.size = Unwrap(window_rect(node, k))]
                ELSE wm.windows[k]]]

\* The "Recalculate the layout" tail shared by the operations.
recalculate(wm) ==
  IF wm.layout = None THEN wm
  ELSE apply_layout([wm EXCEPT !.layout = Some(calculate_layout(Unwrap(wm.layout), wm.area))])

\* WindowManager::resize
resize(wm, a) == recalculate([wm EXCEPT !.area = a])

\* WindowManager::create_window
create_window(wm, window_id, ord) ==
  LET added == Insert(wm, window_id, TerminalWindow(wm.area), ord)
  IN IF wm.layout = None
     THEN [added EXCEPT !.layout = Some(Window(window_id, wm.area)),
                        !.focused_window = Some(window_id),
                        !.windows[window_id].focused = TRUE]
     ELSE added

\* split_window that hands the split leaf's own id to the layout as the id
\* of the new leaf.
split_window_reuses_id(wm, id, direction, ratio, new_id, ord) ==
  IF id \notin DOMAIN wm.windows THEN [ok |-> FALSE, wm |-> wm]
  ELSE LET added == Insert(wm, new_id, TerminalWindow(wm.area), ord)
       IN IF added.layout = None THEN [ok |-> TRUE, wm |-> added]
          ELSE IF ~layout_contains_window(Unwrap(added.layout), id)
          THEN [ok |-> FALSE, wm |-> added]
          ELSE [ok |-> TRUE,
                wm |-> recalculate(
                  [added EXCEPT !.layout =
                     Some(node_split_window(Unwrap(added.layout), id, direction,
                                            id, ratio))])]

\* WindowManager::split_window: [ok, wm]; on the error raised by
\* LayoutNode::split_window the new window is already in the map.
split_window(wm, id, direction, ratio, new_id, ord) ==
  IF id \notin DOMAIN wm.windows THEN [ok |-> FALSE, wm |-> wm]
  ELSE LET added == Insert(wm, new_id, TerminalWindow(wm.area), ord)
       IN IF added.layout = None THEN [ok |-> TRUE, wm |-> added]
          ELSE IF ~layout_contains_window(Unwrap(added.layout), id)
          THEN [ok |-> FALSE, wm |-> added]
          ELSE [ok |-> TRUE,
                wm |-> recalculate(
                  [added EXCEPT !.layout =
                     Some(node_split_window(Unwrap(added.layout), id, direction,
                                            new_id, ratio))])]

\* unzoom that restores the tree but keeps the saved copy.
unzoom_keeps_saved(wm) ==
  IF wm.zoomed_window = None THEN wm
  ELSE recalculate(
         [wm EXCEPT !.layout = IF IsSome(wm.pre_zoom_layout)
                               THEN wm.pre_zoom_layout ELSE wm.layout,
                    !.zoomed_window = None])

\* WindowManager::unzoom
unzoom(wm) ==
  IF wm.zoomed_window = None THEN wm
  ELSE recalculate(
         [wm EXCEPT !.layout = IF IsSome(wm.pre_zoom_layout)
                               THEN wm.pre_zoom_layout ELSE wm.layout,
                    !.zoomed_window = None,
                    !.pre_zoom_layout = None])

\* zoom_window that saves the layout after replacing it by the single leaf.
zoom_window_saves_late(wm, id) ==
  IF IsSome(wm.zoomed_window) THEN unzoom(wm)
  ELSE IF id \notin DOMAIN wm.windows THEN wm
  ELSE LET saved == [wm EXCEPT !.pre_zoom_layout = Some(Window(id, wm.area)),
                                   !.layout = Some(Window(id, wm.area))]
           focused == focus_window(saved, id)
       IN recalculate([focused EXCEPT !.zoomed_window = Some(id)])

\* WindowManager::zoom_window(Some(id))
zoom_window(wm, id) ==
  IF IsSome(wm.zoomed_window) THEN unzoom(wm)
  ELSE IF id \notin DOMAIN wm.windows THEN wm
  ELSE LET saved == [wm EXCEPT !.pre_zoom_layout =
                       IF IsSome(wm.layout) THEN wm.layout ELSE wm.pre_zoom_layout,
                                   !.layout = Some(Window(id, wm.area))]
           focused == focus_window(saved, id)
       IN recalculate([focused EXCEPT !.zoomed_window = Some(id)])


\* WindowManager::create_new_layout_without, on the manager from which the
\* window has already been removed (so windows.keys() is wm.order; the
\* caller has checked that it is not empty).
RECURSIVE create_new_layout_without(_, _, _)
create_new_layout_without(wm, old_layout, removed_id) ==
  IF old_layout.type = "Window"
  THEN IF old_layout.id = removed_id
       THEN Window(wm.order[1], old_layout.rect)
       ELSE Window(old_layout.id, old_layout.rect)
  ELSE LET first_contains == layout_contains_window(old_layout.first, removed_id)
           second_contains == layout_contains_window(old_layout.second, removed_id)
       IN CASE first_contains /\ ~second_contains ->
                 LET new_first == create_new_layout_without(wm, old_layout.first, removed_id)
                 IN IF new_first.type = "Window"
                    THEN Window(new_first.id, old_layout.rect)
                    ELSE [old_layout EXCEPT !.first = new_first]
            [] ~first_contains /\ second_contains ->
                 LET new_second == create_new_layout_without(wm, old_layout.second, removed_id)
                 IN IF new_second.type = "Window"
                    THEN Window(new_second.id, old_layout.rect)
                    ELSE [old_layout EXCEPT !.second = new_second]
            [] first_contains /\ second_contains ->
                 [old_layout EXCEPT
                    !.first = create_new_layout_without(wm, old_layout.first, removed_id),
                    !.second = create_new_layout_without(wm, old_layout.second, removed_id)]
            [] OTHER -> old_layout

\* restructure_layout that always takes its empty-map branch.
restructure_layout_to_none(wm, removed_id) ==
  [wm EXCEPT !.layout = None, !.focused_window = None]

\* WindowManager::restructure_layout
restructure_layout(wm, removed_id) ==
  IF DOMAIN wm.windows = {}
  THEN [wm EXCEPT !.layout = None, !.focused_window = None]
  ELSE recalculate(
         [wm EXCEPT !.layout =
            IF IsSome(wm.layout)
            THEN Some(create_new_layout_without(wm, Unwrap(wm.layout), removed_id))
            ELSE Some(Window(wm.order[1], wm.area))])

\* close_window without the focus hand-over.
refocus_on_close_skipped(wm, id) == wm

\* The focus hand-over of close_window: the first other key takes the focus
\* when the focused window is the one being closed.
refocus_on_close(wm, id) ==
  IF wm.focused_window = Some(id)
  THEN LET others == Without(wm.order, id)
       IN IF others = << >> THEN wm
          ELSE [wm EXCEPT !.focused_window = Some(others[1]),
                          !.windows[others[1]].focused = TRUE]
  ELSE wm

\* close_window whose only-window branch keeps focused_window.
close_window_keeps_focus(wm, id) ==
  IF id \notin DOMAIN wm.windows THEN wm
  ELSE IF Cardinality(DOMAIN wm.windows) = 1
  THEN [Remove(wm, id) EXCEPT !.layout = None]
  ELSE restructure_layout(Remove(refocus_on_close(wm, id), id), id)

\* WindowManager::close_window; the manager is unchanged when it fails.
close_window(wm, id) ==
  IF id \notin DOMAIN wm.windows THEN wm
  ELSE IF Cardinality(DOMAIN wm.windows) = 1
  THEN [Remove(wm, id) EXCEPT !.layout = None, !.focused_window = None]
  ELSE restructure_layout(Remove(refocus_on_close(wm, id), id), id)

\* ------------------------------------------------------ directional focus
\* Twice the centre of a rect (x + width / 2.0, y + height / 2.0).
Centre2(rect) == << 2 * rect.x + rect.width, 2 * rect.y + rect.height >>

Abs(n) == IF n < 0 THEN -n ELSE n

\* is_in_direction without the dominance test between the two axes.
is_in_direction_loose(direction, dx, dy) ==
  CASE direction = "Up"    -> dy < 0
    [] direction = "Down"  -> dy > 0
    [] direction = "Left"  -> dx < 0
    [] direction = "Right" -> dx > 0

is_in_direction(direction, dx, dy) ==
  CASE direction = "Up"    -> dy < 0 /\ Abs(dy) > Abs(dx)
    [] direction = "Down"  -> dy > 0 /\ Abs(dy) > Abs(dx)
    [] direction = "Left"  -> dx < 0 /\ Abs(dx) > Abs(dy)
    [] direction = "Right" -> dx > 0 /\ Abs(dx) > Abs(dy)

\* The candidate loop of focus_direction: keys are visited in iteration
\* order and a later candidate wins only with a strictly smaller distance.
best_candidate(wm, current_id, current_rect, direction) ==
  LET c == Centre2(current_rect)
      dx(id) == Centre2(wm.windows[id].size)[1] - c[1]
      dy(id) == Centre2(wm.windows[id].size)[2] - c[2]
      dist(id) == dx(id) * dx(id) + dy(id) * dy(id)
      eligible == { i \in 1..Len(wm.order) :
                      /\ wm.order[i] # current_id
                      /\ is_in_direction(direction, dx(wm.order[i]), dy(wm.order[i])) }
  IN IF eligible = {} THEN None
     ELSE Some(wm.order[CHOOSE i \in eligible :
                 \A j \in eligible :
                   \/ dist(wm.order[i]) < dist(wm.order[j])
                   \/ (dist(wm.order[i]) = dist(wm.order[j]) /\ i <= j)])

\* focus_direction without the early return while zoomed.
focus_direction_ignores_zoom(wm, direction) ==
  IF wm.focused_window = None \/ wm.layout = None THEN wm
  ELSE LET current_id == Unwrap(wm.focused_window)
           current_rect == window_rect(Unwrap(wm.layout), current_id)
       IN IF current_rect = None THEN wm
          ELSE LET best == best_candidate(wm, current_id, Unwrap(current_rect), direction)
               IN IF best = None THEN wm ELSE focus_window(wm, Unwrap(best))

\* WindowManager::focus_direction
focus_direction(wm, direction) ==
  IF IsSome(wm.zoomed_window) THEN wm
  ELSE IF wm.focused_window = None \/ wm.layout = None THEN wm
  ELSE LET current_id == Unwrap(wm.focused_window)
           current_rect == window_rect(Unwrap(wm.layout), current_id)
       IN IF current_rect = None THEN wm
          ELSE LET best == best_candidate(wm, current_id, Unwrap(current_rect), direction)
               IN IF best = None THEN wm ELSE focus_window(wm, Unwrap(best))

\* WindowManager::focus_prev_window
focus_prev_window(wm) ==
  IF wm.order = << >> THEN wm
  ELSE IF IsSome(wm.focused_window) /\ Unwrap(wm.focused_window) \in Range(wm.order)
  THEN LET index == Position(wm.order, Unwrap(wm.focused_window))
           prev_index == IF index = 1 THEN Len(wm.order) ELSE index - 1
       IN focus_window(wm, wm.order[prev_index])
  ELSE focus_window(wm, wm.order[Len(wm.order)])


\* ----------------------------------------------------------------- presets
\* The right-leaning chain the horizontal and vertical presets build:
\* for i in (0..n-1).rev() the window i (0-based) is cut off with ratio
\* 1/(i+2); k is the 1-based position, so the ratio is 1/(k+1).
RECURSIVE preset_chain(_, _, _, _)
preset_chain(window_ids_, direction, k, a) ==
  IF k = Len(window_ids_)
  THEN Window(window_ids_[k], a)
  ELSE Split(direction, << 1, k + 1 >>, Window(window_ids_[k], a),
             preset_chain(window_ids_, direction, k + 1, a), a)

\* The stack built with the ratio of the horizontal and vertical presets,
\* 1/(i + 2).
RECURSIVE stack_chain_outer_ratio(_, _, _)
stack_chain_outer_ratio(stack_window_ids, k, a) ==
  IF k = Len(stack_window_ids)
  THEN Window(stack_window_ids[k], a)
  ELSE Split("Vertical", << 1, k + 1 >>,
             Window(stack_window_ids[k], a),
             stack_chain_outer_ratio(stack_window_ids, k + 1, a), a)

\* The stack of the main+stack preset: ratio 1/(len - i), i 0-based.
RECURSIVE stack_chain(_, _, _)
stack_chain(stack_window_ids, k, a) ==
  IF k = Len(stack_window_ids)
  THEN Window(stack_window_ids[k], a)
  ELSE Split("Vertical", << 1, Len(stack_window_ids) - k + 1 >>,
             Window(stack_window_ids[k], a),
             stack_chain(stack_window_ids, k + 1, a), a)

\* The grid's fold of a row (or of the rows): equal splits, right-leaning.
RECURSIVE grid_fold(_, _, _)
grid_fold(nodes, direction, a) ==
  IF Len(nodes) = 1 THEN nodes[1]
  ELSE Split(direction, << 1, 2 >>, nodes[1], grid_fold(Tail(nodes), direction, a), a)

\* (n as f64).sqrt().ceil()
CeilSqrt(n) == CHOOSE r \in 0..n : r * r >= n /\ (r = 0 \/ (r - 1) * (r - 1) < n)

\* The layout tree apply_grid_layout builds.
grid_tree(window_ids_, a) ==
  LET n == Len(window_ids_)
  IN CASE n = 1 -> Window(window_ids_[1], a)
       [] n = 2 -> Split("Horizontal", << 1, 2 >>, Window(window_ids_[1], a),
                         Window(window_ids_[2], a), a)
       [] n = 3 -> Split("Horizontal", << 1, 2 >>, Window(window_ids_[1], a),
                         Split("Vertical", << 1, 2 >>, Window(window_ids_[2], a),
                               Window(window_ids_[3], a), a), a)
       [] OTHER ->
            LET rows == CeilSqrt(n)
                cols == (n + rows - 1) \div rows
                col_layouts(row) ==
                  [c \in 1..(IF (row + 1) * cols <= n THEN cols
                             ELSE IF row * cols < n THEN n - row * cols ELSE 0) |->
                     Window(window_ids_[row * cols + c], a)]
                used_rows == { row \in 0..(rows - 1) : Len(col_layouts(row)) > 0 }
                row_layouts ==
                  [r \in 1..Cardinality(used_rows) |->
                     grid_fold(col_layouts(r - 1), "Horizontal", a)]
            IN grid_fold(row_layouts, "Vertical", a)

\* The checks of a preset without the loop over the ids.
preset_rejected_empty_only(wm, window_ids_) == window_ids_ = << >>

\* The checks every preset starts with.
preset_rejected(wm, window_ids_) ==
  window_ids_ = << >> \/ \E i \in 1..Len(window_ids_) : window_ids_[i] \notin DOMAIN wm.windows

\* The tail of a preset without the recalculation of the layout.
preset_install_stale(wm, tree, first_id) ==
  focus_window([wm EXCEPT !.layout = Some(tree)], first_id)

\* The tail every preset ends with: focus the first window, recalculate.
preset_install(wm, tree, first_id) ==
  recalculate(focus_window([wm EXCEPT !.layout = Some(tree)], first_id))

apply_horizontal_layout(wm, window_ids_) ==
  IF preset_rejected(wm, window_ids_) THEN wm
  ELSE preset_install(wm, preset_chain(window_ids_, "Horizontal", 1, wm.area), window_ids_[1])

apply_vertical_layout(wm, window_ids_) ==
  IF preset_rejected(wm, window_ids_) THEN wm
  ELSE preset_install(wm, preset_chain(window_ids_, "Vertical", 1, wm.area), window_ids_[1])

apply_grid_layout(wm, window_ids_) ==
  IF preset_rejected(wm, window_ids_) THEN wm
  ELSE preset_install(wm, grid_tree(window_ids_, wm.area), window_ids_[1])

apply_main_and_stack_layout(wm, main_window_id, stack_window_ids) ==
  IF main_window_id \notin DOMAIN wm.windows
     \/ \E i \in 1..Len(stack_window_ids) : stack_window_ids[i] \notin DOMAIN wm.windows
  THEN wm
  ELSE preset_install(
         wm,
         IF stack_window_ids = << >>
         THEN Window(main_window_id, wm.area)
         ELSE Split("Horizontal", << 7, 10 >>, Window(main_window_id, wm.area),
                    stack_chain(stack_window_ids, 1, wm.area), wm.area),
         main_window_id)


\* ---------------------------------------------------------- TerminalBuffer
\* A String is the sequence of its UTF-8 bytes; rows and columns are
\* 0-based as in the code, so lines[row + 1] is the line of the cursor.
LF == 10
CR == 13
HT == 9
ESC == 27
SP == 32

Min(a, b) == IF a < b THEN a ELSE b

\* a.saturating_sub(b) on usize
saturating_sub(a, b) == IF a > b THEN a - b ELSE 0

\* u8::is_ascii_alphabetic
is_ascii_alphabetic(b) == b \in 65..90 \/ b \in 97..122

\* (b as char).to_string(): the UTF-8 encoding of U+0000..U+00FF
char_to_string(b) ==
  IF b < 128 THEN << b >> ELSE << 192 + (b \div 64), 128 + (b % 64) >>

\* str::is_char_boundary
is_char_boundary(str, index) ==
  \/ index = 0
  \/ index = Len(str)
  \/ index < Len(str) /\ str[index + 1] \notin 128..191

Spaces(n) == [i \in 1..n |-> SP]

\* while line.len() <= col { line.push(' ') }
pad_line(line, col) ==
  IF Len(line) <= col THEN line \o Spaces(col + 1 - Len(line)) ELSE line

\* String::replace_range(col..col+1, with): [ok, str]; it panics when an end
\* of the range is out of bounds or not on a char boundary.
replace_range(str, col, with) ==
  IF col + 1 <= Len(str) /\ is_char_boundary(str, col) /\ is_char_boundary(str, col + 1)
  THEN [ok |-> TRUE,
        str |-> SubSeq(str, 1, col) \o with \o SubSeq(str, col + 2, Len(str))]
  ELSE [ok |-> FALSE, str |-> str]

\* TerminalBuffer::new(max_lines)
TerminalBuffer_new(max_lines) ==
  [lines |-> << >>, cursor_pos |-> << 0, 0 >>, max_lines |-> max_lines,
   scroll_offset |-> 0, viewport_size |-> << 24, 80 >>, panicked |-> FALSE]

\* str::parse::<usize>: an optional '+' and then one or more ASCII digits.
RECURSIVE digits_value(_)
digits_value(str) ==
  IF str = << >> THEN 0
  ELSE 10 * digits_value(SubSeq(str, 1, Len(str) - 1)) + (str[Len(str)] - 48)

parse_usize(str) ==
  LET body == IF str # << >> /\ str[1] = 43 THEN Tail(str) ELSE str
  IN IF body # << >> /\ \A i \in 1..Len(body) : body[i] \in 48..57
     THEN Some(digits_value(body)) ELSE None

\* seq.split(';')
RECURSIVE split_semicolon(_)
split_semicolon(str) ==
  IF \A i \in 1..Len(str) : str[i] # 59 THEN << str >>
  ELSE LET k == CHOOSE i \in 1..Len(str) :
                  str[i] = 59 /\ \A j \in 1..(i - 1) : str[j] # 59
       IN << SubSeq(str, 1, k - 1) >> \o split_semicolon(SubSeq(str, k + 1, Len(str)))

\* The state of the loop of TerminalBuffer::write: the lines, the local
\* cursor (row, col), and ok, which is FALSE once the call has panicked.
Cursor(lines, row, col) == [lines |-> lines, row |-> row, col |-> col, ok |-> TRUE]

Panic(st) == [st EXCEPT !.ok = FALSE]

\* The newline branch without the trim of the history.
write_newline_untrimmed(st, max_lines) ==
  LET row == st.row + 1
  IN IF row >= Len(st.lines)
     THEN Cursor(Append(st.lines, << >>), row, 0)
     ELSE Cursor(st.lines, row, 0)

\* b'\n'
write_newline(st, max_lines) ==
  LET row == st.row + 1
  IN IF row >= Len(st.lines)
     THEN LET pushed == Append(st.lines, << >>)
          IN IF Len(pushed) > max_lines
             THEN Cursor(Tail(pushed), Len(pushed) - 2, 0)
             ELSE Cursor(pushed, row, 0)
     ELSE Cursor(st.lines, row, 0)

\* One pass of the loop of b'\t': a space is written while the cursor is
\* left of the viewport's width.
RECURSIVE tab_loop(_, _, _)
tab_loop(st, spaces, cols) ==
  IF spaces = 0 \/ ~st.ok THEN st
  ELSE IF st.col < cols
  THEN IF st.row >= Len(st.lines) THEN Panic(st)
       ELSE LET r == replace_range(pad_line(st.lines[st.row + 1], st.col), st.col, << SP >>)
            IN IF ~r.ok THEN Panic(st)
               ELSE tab_loop([st EXCEPT !.lines[st.row + 1] = r.str, !.col = st.col + 1],
                             spaces - 1, cols)
  ELSE tab_loop(st, spaces - 1, cols)

\* b'\t'
write_tab(st, cols) == tab_loop(st, 8 - (st.col % 8), cols)

\* Normal character
write_char(st, b) ==
  LET lines == IF Len(st.lines) <= st.row
               THEN st.lines \o [i \in 1..(st.row + 1 - Len(st.lines)) |-> << >>]
               ELSE st.lines
      current_line == pad_line(lines[st.row + 1], st.col)
  IN IF st.col < Len(current_line)
     THEN LET r == replace_range(current_line, st.col, char_to_string(b))
          IN IF ~r.ok THEN Panic(st)
             ELSE [st EXCEPT !.lines = [lines EXCEPT ![st.row + 1] = r.str],
                             !.col = st.col + 1]
     ELSE [st EXCEPT !.lines = [lines EXCEPT ![st.row + 1] = current_line \o char_to_string(b)],
                     !.col = st.col + 1]

\* The parameter bytes of a CSI sequence: from index i (0-based) up to the
\* first ASCII letter or the end of the data; each byte is pushed as a char.
RECURSIVE csi_seq(_, _)
csi_seq(data, i) ==
  IF i < Len(data) /\ ~is_ascii_alphabetic(data[i + 1])
  THEN char_to_string(data[i + 1]) \o csi_seq(data, i + 1)
  ELSE << >>

\* Index (0-based) at which the scan of csi_seq stops.
RECURSIVE csi_end(_, _)
csi_end(data, i) ==
  IF i < Len(data) /\ ~is_ascii_alphabetic(data[i + 1]) THEN csi_end(data, i + 1) ELSE i

\* The command of a CSI sequence: 'J' with "2" clears, 'H' with two numbers
\* places the cursor, anything else is ignored.
csi_command(st, seq, cmd, cols) ==
  IF cmd = 74
  THEN IF seq = << 50 >> THEN Cursor(<< << >> >>, 0, 0) ELSE st
  ELSE IF cmd = 72
  THEN LET parts == split_semicolon(seq)
       IN IF Len(parts) = 2 /\ IsSome(parse_usize(parts[1])) /\ IsSome(parse_usize(parts[2]))
          THEN [st EXCEPT
                  !.row = Min(saturating_sub(Unwrap(parse_usize(parts[1])), 1),
                              saturating_sub(Len(st.lines), 1)),
                  !.col = Min(saturating_sub(Unwrap(parse_usize(parts[2])), 1),
                              saturating_sub(cols, 1))]
          ELSE st
  ELSE st

\* The while loop of TerminalBuffer::write from index i (0-based).
RECURSIVE write_loop(_, _, _, _, _)
write_loop(st, data, i, cols, max_lines) ==
  IF i >= Len(data) \/ ~st.ok THEN st
  ELSE LET b == data[i + 1]
       IN CASE b = LF -> write_loop(write_newline(st, max_lines), data, i + 1, cols, max_lines)
            [] b = CR -> write_loop([st EXCEPT !.col = 0], data, i + 1, cols, max_lines)
            [] b = HT -> write_loop(write_tab(st, cols), data, i + 1, cols, max_lines)
            [] b = ESC ->
                 IF i + 1 < Len(data) /\ data[i + 2] = 91
                 THEN LET j == csi_end(data, i + 2)
                      IN IF j < Len(data)
                         THEN write_loop(csi_command(st, csi_seq(data, i + 2), data[j + 1], cols),
                                         data, j + 1, cols, max_lines)
                         ELSE st
                 ELSE write_loop(st, data, i + 1, cols, max_lines)
            [] OTHER -> write_loop(write_char(st, b), data, i + 1, cols, max_lines)

\* TerminalBuffer::write; a panic leaves the buffer marked panicked.
write(buf, data) ==
  LET lines == IF buf.lines = << >> THEN << << >> >> ELSE buf.lines
      st == write_loop(Cursor(lines, buf.cursor_pos[1], buf.cursor_pos[2]), data, 0,
                       buf.viewport_size[2], buf.max_lines)
  IN IF st.ok
     THEN [buf EXCEPT !.lines = st.lines, !.cursor_pos = << st.row, st.col >>]
     ELSE [buf EXCEPT !.panicked = TRUE]

\* TerminalBuffer::visible_lines
visible_lines(buf) ==
  LET buffer_size == Len(buf.lines)
      visible_rows == Min(buf.viewport_size[1], buffer_size)
      max_scroll == saturating_sub(buffer_size, visible_rows)
      scroll == Min(buf.scroll_offset, max_scroll)
      start == saturating_sub(saturating_sub(buffer_size, visible_rows), scroll)
      end == Min(start + visible_rows, buffer_size)
  IN SubSeq(buf.lines, start + 1, end)

\* TerminalBuffer::scroll_up
scroll_up(buf, n) ==
  [buf EXCEPT !.scroll_offset =
     Min(buf.scroll_offset + n, saturating_sub(Len(buf.lines), 1))]

\* TerminalBuffer::scroll_down
scroll_down(buf, n) ==
  [buf EXCEPT !.scroll_offset = saturating_sub(buf.scroll_offset, n)]

\* TerminalBuffer::scroll_to_bottom
scroll_to_bottom(buf) == [buf EXCEPT !.scroll_offset = 0]

\* TerminalBuffer::resize
buffer_resize(buf, rows, cols) ==
  [buf EXCEPT !.viewport_size = << rows, cols >>,
              !.cursor_pos = << Min(buf.cursor_pos[1], saturating_sub(Len(buf.lines), 1)),
                                Min(buf.cursor_pos[2], cols) >>]

\* clear that leaves the cursor where it was.
clear_keeps_cursor(buf) ==
  [buf EXCEPT !.lines = << << >> >>, !.scroll_offset = 0]

\* TerminalBuffer::clear
clear(buf) ==
  [buf EXCEPT !.lines = << << >> >>, !.cursor_pos = << 0, 0 >>, !.scroll_offset = 0]

\* -------------------------------------------------------------- controller
Directions == { "Up", "Down", "Left", "Right" }
SplitDirections == { "Horizontal", "Vertical" }

\* The history record: op is the controller action taken, id the pane it
\* created, closed or zoomed, pre the layout before it, n the number of
\* panes before it, and pre2 the layout before the action preceding it when
\* the two form a pair (zoom then zoom, split then close of the new pane).
Last(op, id, pre, pre2, n) == [op |-> op, id |-> id, pre |-> pre, pre2 |-> pre2, n |-> n]

Plain(op) == Last(op, 0, None, None, 0)

\* The record of a directional focus: wm is the manager before it, before
\* the pane a focus Right started from when this is the focus Left that
\* directly follows it.
FocusLast(direction, wm, before) ==
  [op |-> "focus_direction", id |-> 0, pre |-> wm.layout, pre2 |-> None,
   n |-> Cardinality(DOMAIN wm.windows),
   direction |-> direction, wm |-> wm, before |-> before]

\* App::create_window: the window is registered whether or not the shell
\* then starts in it.
app_create_window(wm, window_id, ord) == create_window(wm, window_id, ord)

\* App::split_window with window_id the focused window: the new window is
\* focused only when the split and the spawn both succeed.
app_split_window(wm, window_id, direction, new_id, ord, spawn_ok) ==
  LET r == split_window(wm, window_id, direction, << 1, 2 >>, new_id, ord)
  IN IF ~r.ok THEN r.wm
     ELSE IF ~spawn_ok THEN r.wm
     ELSE focus_window(r.wm, new_id)

\* App::focus_next_window with current_id the focused window
app_focus_next_window(wm, current_id) ==
  IF current_id \notin Range(wm.order) THEN wm
  ELSE LET index == Position(wm.order, current_id)
           next_index == (index % Len(wm.order)) + 1
       IN focus_window(wm, wm.order[next_index])

\* TerminalWindow::new: buffer_size, the lines of history a pane keeps.
BufferSize == 10000

\* The first bytes of help_text: a line feed and the three bytes of the
\* box-drawing character U+2554.
help_text_head == << LF, 226, 149, 148 >>

\* App::display_help: the window is created, the help text is written to
\* its buffer and the window is focused.  A panic of the write unwinds the
\* call before focus_window.
display_help(wm, window_id, ord) ==
  LET created == create_window(wm, window_id, ord)
      written == write(TerminalBuffer_new(BufferSize), help_text_head)
  IN [wm |-> IF written.panicked THEN created ELSE focus_window(created, window_id),
      panicked |-> written.panicked]

\* main_area of the draw callback in App::run
main_area(size, active) ==
  IF active
  THEN Rect(SidebarWidth, 0,
            IF size[1] > SidebarWidth THEN size[1] - SidebarWidth ELSE 0, size[2])
  ELSE Rect(0, 0, size[1], size[2])

\* ---------------------------------------- TerminalWindow and its session
\* WindowEvent / ProcessEvent values.  The data of an Output is the number
\* of the chunk: 0 for the banner of the window's own task, k >= 1 for the
\* k-th chunk the reader thread has read from the PTY master.
Output(data) == << "Output", data >>
Exit(code) == << "Exit", code >>
ErrorEvent == << "Error" >>

\* WindowState
Ready == << "Ready" >>
Running == << "Running" >>
Exited(code) == << "Exited", code >>
ErrorState == << "Error" >>

\* TerminalWindow::new: no process, no channel, state Ready.  written is the
\* sequence of the data buffer.write has been called with; nread, taken,
\* closed and op, pre are history (chunks read so far, events read_event has
\* returned, whether close has been called, the last operation and what it
\* found).
Pane_new ==
  [state |-> Ready,
   process |-> FALSE,        \* self.process.is_some()
   event_rx |-> None,        \* the window's unbounded channel
   task |-> "none",          \* the task spawned by spawn_process
   receiver |-> << >>,       \* Process.receiver, the bounded channel
   reader |-> "none",        \* the reader thread
   waiter |-> "none",        \* the wait thread
   pending |-> None,         \* the event the reader is about to send
   written |-> << >>,
   nread |-> 0,
   taken |-> << >>,
   closed |-> FALSE,
   op |-> "new",
   pre |-> None]

\* mpsc::Sender::blocking_send on the channel of capacity QueueCapacity:
\* the event is appended when there is room, the sender waits otherwise.
blocking_send_drops(queue, event) ==
  [sent |-> TRUE, queue |-> IF Len(queue) < QueueCapacity THEN Append(queue, event) ELSE queue]

blocking_send(queue, event) ==
  IF Len(queue) < QueueCapacity
  THEN [sent |-> TRUE, queue |-> Append(queue, event)]
  ELSE [sent |-> FALSE, queue |-> queue]

\* TerminalWindow::spawn_process after Process::new has succeeded.
spawn_process(p) ==
  [p EXCEPT !.process = TRUE, !.receiver = << >>, !.reader = "read",
            !.waiter = "sleep", !.pending = None,
            !.event_rx = Some(<< >>), !.task = "send", !.state = Running]

\* The match of TerminalWindow::update on one event.
handle_event(p, event) ==
  CASE event[1] = "Output" -> [p EXCEPT !.written = Append(@, event[2])]
    [] event[1] = "Exit" -> [p EXCEPT !.state = Exited(event[2])]
    [] event[1] = "Error" -> [p EXCEPT !.state = ErrorState]

\* TerminalWindow::update: one try_recv on the window's channel.
update(p) ==
  IF p.event_rx = None \/ Unwrap(p.event_rx) = << >> THEN p
  ELSE handle_event([p EXCEPT !.event_rx = Some(Tail(Unwrap(@)))],
                    Head(Unwrap(p.event_rx)))

\* Process::read_event: try_recv on the session's channel.
read_event(p) ==
  IF p.receiver = << >> THEN p
  ELSE [p EXCEPT !.receiver = Tail(@), !.taken = Append(@, Head(p.receiver))]

\* TerminalWindow::close: the process is killed and dropped (which drops
\* the receiver of the session's channel), the handles are cleared.
close(p) ==
  [p EXCEPT !.process = FALSE, !.receiver = << >>, !.event_rx = None,
            !.state = Exited(-1)]

\* App::new
\* ------------------------------------ the LayoutManager of the GUI front end
\* LayoutNode::Window(id) and LayoutNode::Split { .. } of the GUI: the
\* nodes carry no rect.
GuiWindow(id) == [type |-> "Window", id |-> id]
GuiSplit(direction, ratio, first, second) ==
  [type |-> "Split", direction |-> direction, ratio |-> ratio,
   first |-> first, second |-> second]

\* LayoutManager::new; next is the next fresh Uuid, last the history of the
\* last call.
LayoutManager_new == [root |-> None, next |-> 1, last |-> [op |-> "new"]]

\* LayoutManager::add_window
gui_add_window(root, window_id) ==
  IF root = None THEN Some(GuiWindow(window_id))
  ELSE Some(GuiSplit("Horizontal", << 1, 2 >>, Unwrap(root), GuiWindow(window_id)))

\* LayoutManager::remove_from_node
RECURSIVE gui_remove_from_node(_, _)
gui_remove_from_node(node, window_id) ==
  IF node.type = "Window"
  THEN IF node.id = window_id THEN None ELSE Some(node)
  ELSE LET new_first == gui_remove_from_node(node.first, window_id)
           new_second == gui_remove_from_node(node.second, window_id)
       IN CASE IsSome(new_first) /\ IsSome(new_second) ->
                 Some([node EXCEPT !.first = Unwrap(new_first),
                                   !.second = Unwrap(new_second)])
            [] IsSome(new_first) /\ ~IsSome(new_second) -> new_first
            [] ~IsSome(new_first) /\ IsSome(new_second) -> new_second
            [] OTHER -> None

\* LayoutManager::remove_window
gui_remove_window(root, window_id) ==
  IF root = None THEN root
  ELSE IF Unwrap(root) = GuiWindow(window_id) THEN None
  ELSE LET new_root == gui_remove_from_node(Unwrap(root), window_id)
       IN IF IsSome(new_root) THEN new_root ELSE root

\* The ids on the leaves of a tree of the GUI.
RECURSIVE gui_leaf_ids(_)
gui_leaf_ids(node) ==
  IF node.type = "Window" THEN { node.id }
  ELSE gui_leaf_ids(node.first) \cup gui_leaf_ids(node.second)

\* LayoutManager::split_in_node: the result for the first child is taken
\* unless the first child is itself the leaf to split; otherwise the first
\* child is kept as it was and the second child is searched.
RECURSIVE split_in_node(_, _, _, _, _)
split_in_node(node, window_id, direction, new_window_id, ratio) ==
  IF node.type = "Window"
  THEN IF node.id = window_id
       THEN Some(GuiSplit(direction, ratio, GuiWindow(node.id), GuiWindow(new_window_id)))
       ELSE Some(node)
  ELSE LET new_first == split_in_node(node.first, window_id, direction,
                                      new_window_id, ratio)
       IN IF IsSome(new_first) /\ node.first # GuiWindow(window_id)
          THEN Some([node EXCEPT !.first = Unwrap(new_first)])
          ELSE LET new_second == split_in_node(node.second, window_id, direction,
                                               new_window_id, ratio)
               IN IF IsSome(new_second)
                  THEN Some([node EXCEPT !.second = Unwrap(new_second)])
                  ELSE Some(node)

\* LayoutManager::split_window
gui_split_window(root, window_id, direction, new_window_id, ratio) ==
  IF root = None THEN root
  ELSE LET new_root == split_in_node(Unwrap(root), window_id, direction,
                                     new_window_id, ratio)
       IN IF IsSome(new_root) THEN new_root ELSE root

\* App::new: Normal mode, running, an empty command buffer.  ev is the
\* history of the last event the loop handled.
App_new ==
  [state |-> "Normal", running |-> TRUE, command_buffer |-> << >>,
   panicked |-> FALSE, ev |-> [kind |-> "init"]]

InitWM ==
  app_create_window(WindowManager_new(Rect(0, 0, InitWidth, InitHeight)), 1, << 1 >>)

Init ==
  /\ layout = InitWM.layout
  /\ windows = InitWM.windows
  /\ focused_window = InitWM.focused_window
  /\ area = InitWM.area
  /\ zoomed_window = InitWM.zoomed_window
  /\ pre_zoom_layout = InitWM.pre_zoom_layout
  /\ order = InitWM.order
  /\ next_id = 2
  /\ sidebar_active = TRUE
  /\ last = Plain("init")
  /\ buffer = TerminalBuffer_new(MaxLines)
  /\ buffer_last = [op |-> "init", data |-> << >>, after_clear |-> FALSE, pre |-> None]
  /\ pane = Pane_new
  /\ app = App_new
  /\ gui = LayoutManager_new

Orders(id) == Perms(DOMAIN windows \cup {id})

\* One iteration of the loop of App::run is the draw callback, which resizes
\* the manager to the main area, followed by the handler of one event.
\* Frames is the set of managers the draw callback can leave.
\* The loop takes an iteration only `while self.running`, and not after a
\* panic has unwound it.
Alive == app.running /\ ~app.panicked

Frames ==
  IF Alive THEN { resize(SelfWM, main_area(size, sidebar_active)) : size \in TermSizes }
  ELSE {}

Panes(wm) == Cardinality(DOMAIN wm.windows)

\* AppEvent::Tick (update_on_tick does nothing), and any event without a
\* handler of its own
Tick ==
  /\ \E wm \in Frames : Commit(wm)
  /\ UNCHANGED << next_id, sidebar_active, last, buffer, buffer_last, pane, app, gui >>

\* Ctrl+N, :new, sidebar NewWindow
CreateWindow ==
  /\ next_id <= MaxPanes
  /\ \E wm \in Frames, ord \in Orders(next_id) :
       /\ Commit(app_create_window(wm, next_id, ord))
       /\ last' = Last("create", next_id, wm.layout, None, Panes(wm))
  /\ next_id' = next_id + 1
  /\ UNCHANGED << sidebar_active, buffer, buffer_last, pane, app, gui >>

\* Ctrl+H, Ctrl+V, :split, sidebar SplitHorizontal / SplitVertical, while
\* fewer than max_panes pane ids have been handed out.
SplitWindowUpTo(max_panes) ==
  /\ next_id <= max_panes
  /\ \E wm \in Frames, direction \in SplitDirections, ord \in Orders(next_id),
        spawn_ok \in BOOLEAN :
       /\ IsSome(focused_id(wm))
       /\ LET window_id == Unwrap(focused_id(wm))
              r == split_window(wm, window_id, direction, << 1, 2 >>, next_id, ord)
          IN /\ Commit(app_split_window(wm, window_id, direction, next_id, ord, spawn_ok))
             /\ last' = Last(IF ~r.ok THEN "split_failed"
                             ELSE IF spawn_ok THEN "split" ELSE "split_unspawned",
                             next_id, wm.layout, None, Panes(wm))
  /\ next_id' = next_id + 1
  /\ UNCHANGED << sidebar_active, buffer, buffer_last, pane, app, gui >>

SplitWindow == SplitWindowUpTo(MaxPanes)

\* Ctrl+Tab
FocusNextWindow ==
  /\ \E wm \in Frames :
       /\ IsSome(focused_id(wm))
       /\ Commit(app_focus_next_window(wm, Unwrap(focused_id(wm))))
  /\ last' = Plain("focus_next")
  /\ UNCHANGED << next_id, sidebar_active, buffer, buffer_last, pane, app, gui >>

\* Ctrl+Shift+Tab
FocusPrevWindow ==
  /\ \E wm \in Frames :
       /\ wm.order # << >>
       /\ Commit(focus_prev_window(wm))
  /\ last' = Plain("focus_prev")
  /\ UNCHANGED << next_id, sidebar_active, buffer, buffer_last, pane, app, gui >>

\* Ctrl+Up / Down / Left / Right
FocusDirection ==
  /\ \E wm \in Frames, direction \in Directions :
       /\ Commit(focus_direction(wm, direction))
       /\ last' = FocusLast(direction, wm,
                            IF /\ direction = "Left"
                               /\ last.op = "focus_direction"
                               /\ last.direction = "Right"
                               /\ last.wm.focused_window # wm.focused_window
                            THEN last.wm.focused_window ELSE None)
  /\ UNCHANGED << next_id, sidebar_active, buffer, buffer_last, pane, app, gui >>

\* Ctrl+Z, :zoom, sidebar Zoom
ZoomToggle ==
  /\ \E wm \in Frames :
       /\ IsSome(focused_id(wm))
       /\ LET id == Unwrap(focused_id(wm))
          IN /\ Commit(zoom_window(wm, id))
             /\ last' = IF IsSome(wm.zoomed_window)
                        THEN Last("unzoom", id, wm.layout,
                                  IF last.op = "zoom" /\ last.id = id
                                  THEN last.pre ELSE None,
                                  Panes(wm))
                        ELSE Last("zoom", id, wm.layout, None, Panes(wm))
  /\ UNCHANGED << next_id, sidebar_active, buffer, buffer_last, pane, app, gui >>

\* Ctrl+G, :layout grid, sidebar GridLayout
GridLayout ==
  /\ \E wm \in Frames :
       /\ wm.order # << >>
       /\ Commit(apply_grid_layout(wm, wm.order))
  /\ last' = Plain("grid")
  /\ UNCHANGED << next_id, sidebar_active, buffer, buffer_last, pane, app, gui >>

\* Ctrl+Shift+H, :layout horizontal, sidebar HorizontalLayout
HorizontalLayout ==
  /\ \E wm \in Frames :
       /\ wm.order # << >>
       /\ Commit(apply_horizontal_layout(wm, wm.order))
  /\ last' = Plain("horizontal")
  /\ UNCHANGED << next_id, sidebar_active, buffer, buffer_last, pane, app, gui >>

\* Ctrl+Shift+V, :layout vertical, sidebar VerticalLayout
VerticalLayout ==
  /\ \E wm \in Frames :
       /\ wm.order # << >>
       /\ Commit(apply_vertical_layout(wm, wm.order))
  /\ last' = Plain("vertical")
  /\ UNCHANGED << next_id, sidebar_active, buffer, buffer_last, pane, app, gui >>

\* Ctrl+M, :layout main, sidebar MainLayout
MainStackLayout ==
  /\ \E wm \in Frames :
       /\ IsSome(focused_id(wm))
       /\ LET main_id == Unwrap(focused_id(wm))
          IN Commit(apply_main_and_stack_layout(wm, main_id, Without(wm.order, main_id)))
  /\ last' = Plain("main_stack")
  /\ UNCHANGED << next_id, sidebar_active, buffer, buffer_last, pane, app, gui >>

\* Ctrl+W, :close, sidebar CloseWindow (App::close_current_window)
CloseCurrentWindow ==
  /\ \E wm \in Frames :
       /\ IsSome(focused_id(wm))
       /\ LET window_id == Unwrap(focused_id(wm))
          IN /\ Commit(close_window(wm, window_id))
             /\ last' = Last("close", window_id, wm.layout,
                             IF last.op = "split" /\ last.id = window_id
                             THEN last.pre ELSE None,
                             Panes(wm))
  /\ UNCHANGED << next_id, sidebar_active, buffer, buffer_last, pane, app, gui >>

\* :help, sidebar Help
DisplayHelp ==
  /\ next_id <= MaxPanes
  /\ \E wm \in Frames, ord \in Orders(next_id) :
       /\ LET r == display_help(wm, next_id, ord)
          IN /\ Commit(r.wm)
             /\ app' = [app EXCEPT !.panicked = r.panicked]
       /\ last' = Last("help", next_id, wm.layout, None, Panes(wm))
  /\ next_id' = next_id + 1
  /\ UNCHANGED << sidebar_active, buffer, buffer_last, pane, gui >>

Next ==
  \/ Tick
  \/ CreateWindow
  \/ SplitWindow
  \/ FocusNextWindow
  \/ FocusPrevWindow
  \/ FocusDirection
  \/ ZoomToggle
  \/ GridLayout
  \/ HorizontalLayout
  \/ VerticalLayout
  \/ MainStackLayout
  \/ CloseCurrentWindow
  \/ DisplayHelp

Spec == Init /\ [][Next]_vars

\* Bytes a write is made of: the control codes, an ASCII letter, and a byte
\* outside ASCII.
CoreBytes == { LF, CR, HT, ESC, 97, 195 }

\* Every byte string over CoreBytes of at most MaxShortWrite bytes.
ShortWrites == UNION { [1..n -> CoreBytes] : n \in 0..MaxShortWrite }

\* CSI sequences: recognised, unrecognised, malformed and truncated.
\* 91 '[', 48 '0', 50 '2', 59 ';', 72 'H', 74 'J', 109 'm'.
UnrecognisedCsi ==
  { << ESC, 91, 50, 109 >>, << ESC, 91, 109 >>, << ESC, 91, 48, 74 >>,
    << ESC, 91, 59, 72 >>, << ESC, 91, 50, 59, 50, 59, 50, 72 >>,
    << ESC, 91, 195, 109 >> }

CsiWrites ==
  UnrecognisedCsi \cup
  { << ESC, 91, 50, 74 >>, << ESC, 91, 50, 59, 50, 72 >>,
    << ESC, 91, 48, 59, 48, 72 >>, << ESC, 91, 50, 50, 59, 50, 50, 72 >>,
    << ESC, 91, 50 >>, << ESC, 91 >>, << ESC, 91, 50, 74, 97 >> }

WriteInputs == ShortWrites \cup CsiWrites

\* Viewports (rows, cols) a resize may set, and scroll distances.
ViewportSizes == { << 1, 2 >>, << 2, 3 >> }
ScrollLines == { 1, 2 }

\* The history record of the buffer: op is the operation taken; for a write
\* that directly follows a clear, data is what was written; for a write of
\* an unrecognised CSI sequence, data is the sequence and pre the buffer
\* before it.
BufferLast(op, data, after_clear, pre) ==
  [op |-> op, data |-> data, after_clear |-> after_clear, pre |-> pre]

BufferPlain(op) == BufferLast(op, << >>, FALSE, None)

WMUnchanged ==
  UNCHANGED << layout, windows, focused_window, area, zoomed_window,
               pre_zoom_layout, order, next_id, sidebar_active, last, pane, app, gui >>

\* The cursor and the lines stay within the model's bounds.
WithinBufferBounds(buf) ==
  /\ buf.cursor_pos[2] <= MaxCol
  /\ \A i \in 1..Len(buf.lines) : Len(buf.lines[i]) <= MaxLineBytes

\* buffer.write(data)
BufferWrite ==
  /\ ~buffer.panicked
  /\ \E data \in WriteInputs :
       /\ WithinBufferBounds(write(buffer, data))
       /\ buffer' = write(buffer, data)
       /\ buffer_last' =
            IF buffer_last.op = "clear" THEN BufferLast("write", data, TRUE, None)
            ELSE IF data \in UnrecognisedCsi
            THEN BufferLast("write", data, FALSE, Some(buffer))
            ELSE BufferPlain("write")
  /\ WMUnchanged

\* buffer.resize(rows, cols)
BufferResize ==
  /\ ~buffer.panicked
  /\ \E size \in ViewportSizes : buffer' = buffer_resize(buffer, size[1], size[2])
  /\ buffer_last' = BufferPlain("resize")
  /\ WMUnchanged

\* buffer.scroll_up(lines)
BufferScrollUp ==
  /\ ~buffer.panicked
  /\ \E n \in ScrollLines : buffer' = scroll_up(buffer, n)
  /\ buffer_last' = BufferPlain("scroll_up")
  /\ WMUnchanged

\* buffer.scroll_down(lines)
BufferScrollDown ==
  /\ ~buffer.panicked
  /\ \E n \in ScrollLines : buffer' = scroll_down(buffer, n)
  /\ buffer_last' = BufferPlain("scroll_down")
  /\ WMUnchanged

\* buffer.scroll_to_bottom()
BufferScrollToBottom ==
  /\ ~buffer.panicked
  /\ buffer' = scroll_to_bottom(buffer)
  /\ buffer_last' = BufferPlain("scroll_to_bottom")
  /\ WMUnchanged

\* buffer.clear()
BufferClear ==
  /\ ~buffer.panicked
  /\ buffer' = clear(buffer)
  /\ buffer_last' = BufferPlain("clear")
  /\ WMUnchanged

BufferNext ==
  \/ BufferWrite
  \/ BufferResize
  \/ BufferScrollUp
  \/ BufferScrollDown
  \/ BufferScrollToBottom
  \/ BufferClear

\* The controller restricted to splits and focus moves, with up to
\* MaxFocusPanes panes.
SplitWindowWide == SplitWindowUpTo(MaxFocusPanes)

FocusNext ==
  \/ SplitWindowWide
  \/ FocusNextWindow
  \/ FocusDirection

FocusSpec == Init /\ [][FocusNext]_vars

\* ------------------------------------------------- the presets, called
\* directly on the WindowManager with any list of ids
\* Every list of distinct ids over 1..MaxPresetPanes, the empty list
\* included; an id not handed out yet is an id that is not in windows.
PresetLists == UNION { Perms(S) : S \in SUBSET (1..MaxPresetPanes) }

\* The list is empty or names an id that is not a key of windows.
ListRejected(wm, ids) == ids = << >> \/ ~(Range(ids) \subseteq DOMAIN wm.windows)

\* The record of a preset call: the ids passed when it succeeded, the
\* manager it was called on when it was rejected.
PresetLast(op, ids, wm, rejected) ==
  [op |-> op, rejected |-> rejected,
   ids |-> IF rejected THEN << >> ELSE ids,
   wm |-> IF rejected THEN Some(wm) ELSE None]

\* WindowManager::create_window while fewer than max_panes ids have been
\* handed out.  The actions that follow it pass their lists explicitly and
\* none iterates the HashMap, so the new key is put last in order.
CreateWindowDirect(max_panes) ==
  /\ next_id <= max_panes
  /\ Commit(create_window(SelfWM, next_id, Append(order, next_id)))
  /\ last' = Plain("create")
  /\ next_id' = next_id + 1
  /\ UNCHANGED << sidebar_active, buffer, buffer_last, pane, app, gui >>

PresetCreateWindow == CreateWindowDirect(MaxPresetPanes)

ApplyGridLayout ==
  /\ \E ids \in PresetLists :
       /\ Commit(apply_grid_layout(SelfWM, ids))
       /\ last' = PresetLast("grid", ids, SelfWM, ListRejected(SelfWM, ids))
  /\ UNCHANGED << next_id, sidebar_active, buffer, buffer_last, pane, app, gui >>

ApplyHorizontalLayout ==
  /\ \E ids \in PresetLists :
       /\ Commit(apply_horizontal_layout(SelfWM, ids))
       /\ last' = PresetLast("horizontal", ids, SelfWM, ListRejected(SelfWM, ids))
  /\ UNCHANGED << next_id, sidebar_active, buffer, buffer_last, pane, app, gui >>

ApplyVerticalLayout ==
  /\ \E ids \in PresetLists :
       /\ Commit(apply_vertical_layout(SelfWM, ids))
       /\ last' = PresetLast("vertical", ids, SelfWM, ListRejected(SelfWM, ids))
  /\ UNCHANGED << next_id, sidebar_active, buffer, buffer_last, pane, app, gui >>

\* The main id is the head of the list, the stack ids are its tail.
ApplyMainAndStackLayout ==
  /\ \E ids \in PresetLists \ { << >> } :
       /\ Commit(apply_main_and_stack_layout(SelfWM, Head(ids), Tail(ids)))
       /\ last' = PresetLast("main_stack", ids, SelfWM, ListRejected(SelfWM, ids))
  /\ UNCHANGED << next_id, sidebar_active, buffer, buffer_last, pane, app, gui >>

\* WindowManager::zoom_window on the pane of a manager that holds its first
\* pane only; the panes created and the presets applied after it find the
\* manager zoomed.
PresetZoomWindow ==
  /\ next_id = 2 /\ zoomed_window = None
  /\ \E id \in DOMAIN windows : Commit(zoom_window(SelfWM, id))
  /\ last' = Plain("zoom")
  /\ UNCHANGED << next_id, sidebar_active, buffer, buffer_last, pane, app, gui >>

\* WindowManager::resize to the main area of a frame
ResizeDirect ==
  /\ \E wm \in Frames : Commit(wm)
  /\ last' = Plain("resize")
  /\ UNCHANGED << next_id, sidebar_active, buffer, buffer_last, pane, app, gui >>

PresetNext ==
  \/ ResizeDirect
  \/ PresetCreateWindow
  \/ PresetZoomWindow
  \/ ApplyGridLayout
  \/ ApplyHorizontalLayout
  \/ ApplyVerticalLayout
  \/ ApplyMainAndStackLayout

PresetSpec == Init /\ [][PresetNext]_vars

\* ------------------------------------------- the grid and the main+stack
\* presets over all the panes of the manager, up to MaxGridPanes of them
GridCreateWindow == CreateWindowDirect(MaxGridPanes)

\* apply_grid_layout over the keys of windows, in any order
GridOverAll ==
  /\ \E ids \in Perms(DOMAIN windows) :
       /\ ids # << >>
       /\ Commit(apply_grid_layout(SelfWM, ids))
       /\ last' = PresetLast("grid", ids, SelfWM, ListRejected(SelfWM, ids))
  /\ UNCHANGED << next_id, sidebar_active, buffer, buffer_last, pane, app, gui >>

\* apply_main_and_stack_layout over the keys of windows, in any order
MainStackOverAll ==
  /\ \E ids \in Perms(DOMAIN windows) :
       /\ ids # << >>
       /\ Commit(apply_main_and_stack_layout(SelfWM, Head(ids), Tail(ids)))
       /\ last' = PresetLast("main_stack", ids, SelfWM, ListRejected(SelfWM, ids))
  /\ UNCHANGED << next_id, sidebar_active, buffer, buffer_last, pane, app, gui >>

GridNext ==
  \/ ResizeDirect
  \/ GridCreateWindow
  \/ GridOverAll
  \/ MainStackOverAll

GridSpec == Init /\ [][GridNext]_vars

\* ------------------------------------------- split_window, called directly
\* on the WindowManager with any id and ratio
\* The ids on the leaves of an optional layout.
LeafIds(o) == IF o = None THEN {} ELSE Range(window_ids(Unwrap(o)))

\* The ratios passed to split_window: 0, 1/2 and 1.
SplitRatios == { << 0, 1 >>, << 1, 2 >>, << 1, 1 >> }

\* The record of a split_window call: whether the id was a key of windows
\* and a leaf of the layout, and the manager it was called on when it was
\* not both.
SplitLast(wm, id) ==
  LET known == id \in DOMAIN wm.windows
      leaf == id \in LeafIds(wm.layout)
  IN [op |-> "split_window", known |-> known, leaf |-> leaf,
      wm |-> IF known /\ leaf THEN None ELSE Some(wm)]

\* WindowManager::split_window(id, direction, ratio) with any id handed out
\* so far or the next one, which is not a key of windows.
SplitDirect ==
  /\ next_id <= MaxSplitPanes
  /\ \E id \in 1..next_id, direction \in SplitDirections, ratio \in SplitRatios :
       /\ Commit(split_window(SelfWM, id, direction, ratio, next_id,
                              Append(order, next_id)).wm)
       /\ last' = SplitLast(SelfWM, id)
       /\ next_id' = IF id \in DOMAIN windows THEN next_id + 1 ELSE next_id
  /\ UNCHANGED << sidebar_active, buffer, buffer_last, pane, app, gui >>

\* WindowManager::zoom_window on any pane: zooms, or unzooms when zoomed.
ZoomDirect ==
  /\ \E id \in DOMAIN windows : Commit(zoom_window(SelfWM, id))
  /\ last' = Plain("zoom")
  /\ UNCHANGED << next_id, sidebar_active, buffer, buffer_last, pane, app, gui >>

SplitNext ==
  \/ ResizeDirect
  \/ SplitDirect
  \/ ZoomDirect

SplitSpec == Init /\ [][SplitNext]_vars

\* ------------------------------------ a TerminalWindow with its session,
\* its threads and its task
\* Everything but the pane is left alone.
PaneOnly ==
  UNCHANGED << layout, windows, focused_window, area, zoomed_window,
               pre_zoom_layout, order, next_id, sidebar_active, last,
               buffer, buffer_last, app, gui >>

\* The pane after an operation, with the history fields set.
Did(p, op, pre) == [p EXCEPT !.op = op, !.pre = pre]

\* window.spawn_process(shell, None) on a new pane; Process::new may fail,
\* and then nothing is assigned.
PaneSpawnProcess ==
  /\ pane.op = "new"
  /\ \E spawn_ok \in BOOLEAN :
       pane' = IF spawn_ok THEN Did(spawn_process(pane), "spawn", None)
               ELSE Did(pane, "spawn_failed", None)
  /\ PaneOnly

\* The task of spawn_process sends its banner; the result of send is
\* ignored, so nothing happens when the receiver is gone.
TaskSend ==
  /\ pane.task = "send"
  /\ pane' = [pane EXCEPT !.task = "sleep",
                          !.event_rx = IF IsSome(@) THEN Some(Append(Unwrap(@), Output(0)))
                                       ELSE @]
  /\ PaneOnly

\* The reader thread's reader.read: a chunk, the end of the stream, or an
\* error (WouldBlock retries and changes nothing).
ReaderRead ==
  /\ pane.reader = "read"
  /\ \/ /\ pane.nread < MaxChunks
        /\ pane' = [pane EXCEPT !.nread = @ + 1, !.reader = "send",
                                !.pending = Some(Output(pane.nread + 1))]
     \/ pane' = [pane EXCEPT !.reader = "done"]
     \/ pane' = [pane EXCEPT !.reader = "send_error", !.pending = Some(ErrorEvent)]
  /\ PaneOnly

\* The reader thread's blocking_send: it fails when the receiver has been
\* dropped and the thread ends; it waits while the channel is full.
ReaderSend ==
  /\ pane.reader \in { "send", "send_error" }
  /\ IF ~pane.process
     THEN pane' = [pane EXCEPT !.reader = "done", !.pending = None]
     ELSE LET r == blocking_send(pane.receiver, Unwrap(pane.pending))
          IN /\ r.sent
             /\ pane' = [pane EXCEPT !.receiver = r.queue, !.pending = None,
                                     !.reader = IF pane.reader = "send" THEN "read"
                                                ELSE "done"]
  /\ PaneOnly

\* The wait thread wakes up after its sleep and sends Exit(0).
WaiterSend ==
  /\ pane.waiter = "sleep"
  /\ IF ~pane.process
     THEN pane' = [pane EXCEPT !.waiter = "done"]
     ELSE LET r == blocking_send(pane.receiver, Exit(0))
          IN /\ r.sent
             /\ pane' = [pane EXCEPT !.receiver = r.queue, !.waiter = "done"]
  /\ PaneOnly

\* window.update() in the loop of App::run; pre holds the two queues the
\* call found.
PaneUpdate ==
  /\ pane' = Did(update(pane), "update",
                 Some([event_rx |-> pane.event_rx, receiver |-> pane.receiver]))
  /\ PaneOnly

\* window.close(), once; pre holds the state the call found.
PaneClose ==
  /\ ~pane.closed
  /\ pane' = Did([close(pane) EXCEPT !.closed = TRUE], "close", Some([state |-> pane.state]))
  /\ PaneOnly

\* process.read_event()
ProcessReadEvent ==
  /\ pane.process /\ pane.receiver # << >>
  /\ pane' = Did(read_event(pane), "read_event", Some([receiver |-> pane.receiver]))
  /\ PaneOnly

PaneNext ==
  \/ PaneSpawnProcess
  \/ TaskSend
  \/ ReaderRead
  \/ ReaderSend
  \/ WaiterSend
  \/ PaneUpdate
  \/ PaneClose

\* A pane as the application drives it.
PaneSpec == Init /\ [][PaneNext]_vars

\* The same with the threads, the task and the loop of App::run scheduled
\* fairly.
PaneFairSpec ==
  /\ PaneSpec
  /\ WF_vars(TaskSend) /\ WF_vars(ReaderRead) /\ WF_vars(ReaderSend)
  /\ WF_vars(WaiterSend) /\ WF_vars(PaneUpdate)

ProcessNext == PaneNext \/ ProcessReadEvent

\* The pane with a caller of Process::read_event.
ProcessSpec == Init /\ [][ProcessNext]_vars

\* A TerminalBuffer driven through its operations in any order.
BufferSpec == Init /\ [][BufferNext]_vars


\* ---------------------------------------------------------------- helpers
\* for the properties

RECURSIVE leaf_rects(_)
leaf_rects(node) ==
  IF node.type = "Window" THEN << node.rect >>
  ELSE leaf_rects(node.first) \o leaf_rects(node.second)

Inside(r, outer) ==
  /\ r.x >= outer.x /\ r.y >= outer.y
  /\ r.x + r.width <= outer.x + outer.width
  /\ r.y + r.height <= outer.y + outer.height

\* Two rects share a cell.
Overlap(r, q) ==
  /\ r.x < q.x + q.width /\ q.x < r.x + r.width
  /\ r.y < q.y + q.height /\ q.y < r.y + r.height

RECURSIVE SumCells(_)
SumCells(rects) ==
  IF rects = << >> THEN 0
  ELSE Head(rects).width * Head(rects).height + SumCells(Tail(rects))

\* The rects lie inside outer, no two share a cell, and together they have
\* as many cells as outer: they cover outer exactly.
Tiles(rects, outer) ==
  /\ \A i \in 1..Len(rects) : Inside(rects[i], outer)
  /\ \A i, j \in 1..Len(rects) : i < j => ~Overlap(rects[i], rects[j])
  /\ SumCells(rects) = outer.width * outer.height

\* In every Split the first child has floor(extent * ratio) of the split
\* extent and the second the remainder, both with the full other extent.
RECURSIVE CutsFollowRatio(_)
CutsFollowRatio(node) ==
  node.type = "Split" =>
    /\ IF node.direction = "Horizontal"
       THEN /\ node.first.rect.width = FloorMul(node.rect.width, node.ratio)
            /\ node.second.rect.width = node.rect.width - node.first.rect.width
            /\ node.first.rect.height = node.rect.height
            /\ node.second.rect.height = node.rect.height
       ELSE /\ node.first.rect.height = FloorMul(node.rect.height, node.ratio)
            /\ node.second.rect.height = node.rect.height - node.first.rect.height
            /\ node.first.rect.width = node.rect.width
            /\ node.second.rect.width = node.rect.width
    /\ CutsFollowRatio(node.first)
    /\ CutsFollowRatio(node.second)

RECURSIVE LeafCount(_)
LeafCount(node) ==
  IF node.type = "Window" THEN 1 ELSE LeafCount(node.first) + LeafCount(node.second)

\* The tree with the leaf id taken out: the Split that holds the leaf
\* directly is replaced by its other child, everything else is kept.
RECURSIVE Collapse(_, _)
Collapse(node, id) ==
  IF node.type = "Window" THEN node
  ELSE IF node.first.type = "Window" /\ node.first.id = id THEN node.second
  ELSE IF node.second.type = "Window" /\ node.second.id = id THEN node.first
  ELSE [node EXCEPT !.first = Collapse(node.first, id),
                    !.second = Collapse(node.second, id)]

\* ------------------------------------------------------------- properties

\* C1: every pane id that is a leaf of the current layout tree is a key of
\* the panes map.
C1_LeavesArePanes == LeafIds(layout) \subseteq DOMAIN windows

\* C2: when the controller has created a pane, the pane is in the panes map
\* and its id is a leaf of the layout tree.
C2_CreatedPaneIsLeaf ==
  last.op = "create" => last.id \in DOMAIN windows /\ last.id \in LeafIds(layout)

C4_LeavesTileArea ==
  IsSome(layout) =>
    /\ Tiles(leaf_rects(Unwrap(layout)), area)
    /\ CutsFollowRatio(Unwrap(layout))

\* A layout of three leaves over an odd width, where a split rounds down.
C4_Witness ==
  /\ IsSome(layout) /\ LeafCount(Unwrap(layout)) = 3
  /\ area.width % 2 = 1
  /\ Tiles(leaf_rects(Unwrap(layout)), area)

\* C5: while a zoom is active the layout tree is the single leaf of the
\* zoomed pane over the whole area.
C5_ZoomedIsSingleLeaf ==
  IsSome(zoomed_window) => layout = Some(Window(Unwrap(zoomed_window), area))

\* C6: zoomed_window is Some if and only if pre_zoom_layout is Some.
C6_ZoomIffSaved == IsSome(zoomed_window) <=> IsSome(pre_zoom_layout)

\* A zoom is active over a saved tree with a split.
C6_Witness ==
  /\ IsSome(zoomed_window) /\ IsSome(pre_zoom_layout)
  /\ Unwrap(pre_zoom_layout).type = "Split"

\* C7: zoom_window(id) directly followed by zoom_window(id), started with no
\* zoom active, leaves the layout tree as it was before the first call and
\* clears the zoom state.
C7_ZoomTwiceRestores ==
  (last.op = "unzoom" /\ IsSome(last.pre2)) =>
    /\ layout = last.pre2
    /\ zoomed_window = None
    /\ pre_zoom_layout = None

\* The pair of zooms has been taken on a tree of three leaves.
C7_Witness ==
  /\ last.op = "unzoom" /\ IsSome(last.pre2)
  /\ LeafCount(Unwrap(last.pre2)) = 3
  /\ layout = last.pre2

\* C8: splitting a leaf and then closing the pane the split created yields
\* the layout tree there was before the split. Stated for the plainest
\* case: no zoom active, every pane a leaf, no id on two leaves.
C8_SplitCloseRestores ==
  (/\ last.op = "close" /\ IsSome(last.pre2)
   /\ zoomed_window = None
   /\ DOMAIN windows = LeafIds(last.pre2)
   /\ Cardinality(LeafIds(last.pre2)) = LeafCount(Unwrap(last.pre2))) =>
    layout = last.pre2

\* C9: closing one pane of a layout with two or more leaves replaces only
\* the Split that holds the leaf by that Split's other child; the leaf set
\* afterwards is the previous one less the closed id. Stated for the
\* plainest case: no zoom active, every pane a leaf, no id on two leaves.
C9_CloseCollapsesOneSplit ==
  (/\ last.op = "close" /\ IsSome(last.pre)
   /\ LeafCount(Unwrap(last.pre)) >= 2
   /\ last.id \in LeafIds(last.pre)
   /\ zoomed_window = None
   /\ DOMAIN windows \cup {last.id} = LeafIds(last.pre)
   /\ Cardinality(LeafIds(last.pre)) = LeafCount(Unwrap(last.pre))) =>
    /\ layout = Some(calculate_layout(Collapse(Unwrap(last.pre), last.id), area))
    /\ LeafIds(layout) = LeafIds(last.pre) \ {last.id}

C11_LeafIdsUnique ==
  IsSome(layout) =>
    Cardinality(LeafIds(layout)) = LeafCount(Unwrap(layout))

\* A pane has been closed out of a tree of three leaves, after two splits.
C11_Witness ==
  /\ last.op = "close" /\ IsSome(last.pre)
  /\ LeafCount(Unwrap(last.pre)) = 3
  /\ last.id \in LeafIds(last.pre)
  /\ IsSome(layout)
  /\ Cardinality(LeafIds(layout)) = LeafCount(Unwrap(layout))

\* C12: the number of stored lines never exceeds max_lines and, whenever a
\* line exists, the cursor row is a valid line index.
C12_LinesBoundedRowValid ==
  ~buffer.panicked =>
    /\ Len(buffer.lines) <= buffer.max_lines
    /\ Len(buffer.lines) >= 1 => buffer.cursor_pos[1] < Len(buffer.lines)

\* A write has left a full buffer of non-empty lines with the cursor on its
\* last line, after a resize.
C12_Witness ==
  /\ buffer_last.op = "write" /\ ~buffer.panicked
  /\ Len(buffer.lines) = buffer.max_lines
  /\ \A i \in 1..Len(buffer.lines) : buffer.lines[i] # << >>
  /\ buffer.cursor_pos[1] = Len(buffer.lines) - 1
  /\ buffer.viewport_size \in ViewportSizes

\* C13: the cursor column is less than or equal to the viewport width.
C13_CursorColInViewport ==
  ~buffer.panicked => buffer.cursor_pos[2] <= buffer.viewport_size[2]

\* C14: clear() followed by write(x) yields the same visible lines as
\* write(x) on a freshly constructed buffer with the same viewport.
C14_ClearThenWriteAsFresh ==
  (buffer_last.op = "write" /\ buffer_last.after_clear) =>
    LET fresh == write(buffer_resize(TerminalBuffer_new(buffer.max_lines),
                                     buffer.viewport_size[1], buffer.viewport_size[2]),
                       buffer_last.data)
    IN /\ buffer.panicked = fresh.panicked
       /\ ~buffer.panicked => visible_lines(buffer) = visible_lines(fresh)

\* Two bytes have been written right after a clear, into a resized viewport,
\* and have left two lines.
C14_Witness ==
  /\ buffer_last.op = "write" /\ buffer_last.after_clear
  /\ Len(buffer_last.data) = 2
  /\ ~buffer.panicked
  /\ Len(buffer.lines) = 2
  /\ buffer.viewport_size \in ViewportSizes

\* C15: write never aborts, whatever the bytes, and an unrecognised CSI
\* sequence changes no stored line and leaves the cursor where it was.
C15_WriteNeverAborts ==
  /\ ~buffer.panicked
  /\ IsSome(buffer_last.pre) =>
       LET pre == Unwrap(buffer_last.pre)
       IN /\ buffer.cursor_pos = pre.cursor_pos
          /\ \A i \in 1..Len(pre.lines) : buffer.lines[i] = pre.lines[i]

\* ------------------------------------------------ directional focus claims
\* The layout is tiled: no zoom, every pane is a leaf, no id on two leaves.
Tiled(wm) ==
  /\ wm.zoomed_window = None
  /\ IsSome(wm.layout)
  /\ DOMAIN wm.windows = LeafIds(wm.layout)
  /\ Cardinality(LeafIds(wm.layout)) = LeafCount(Unwrap(wm.layout))

\* Twice the centre of the rect the manager wm holds for pane id.
PaneCentre2(wm, id) ==
  << 2 * wm.windows[id].size.x + wm.windows[id].size.width,
     2 * wm.windows[id].size.y + wm.windows[id].size.height >>

\* Twice the centre of the focused pane's leaf (of its size when the pane
\* is not a leaf).
FromCentre2(wm) ==
  LET id == Unwrap(wm.focused_window)
      r == IF IsSome(wm.layout) THEN window_rect(Unwrap(wm.layout), id) ELSE None
  IN IF IsSome(r)
     THEN << 2 * Unwrap(r).x + Unwrap(r).width, 2 * Unwrap(r).y + Unwrap(r).height >>
     ELSE PaneCentre2(wm, id)

Dx2(wm, id) == PaneCentre2(wm, id)[1] - FromCentre2(wm)[1]
Dy2(wm, id) == PaneCentre2(wm, id)[2] - FromCentre2(wm)[2]
Dist4(wm, id) == Dx2(wm, id) * Dx2(wm, id) + Dy2(wm, id) * Dy2(wm, id)

Magnitude(n) == IF n < 0 THEN 0 - n ELSE n

\* The panes eligible for direction d from the focused pane of wm.
EligiblePanes(wm, d) ==
  IF wm.focused_window = None \/ Unwrap(wm.focused_window) \notin DOMAIN wm.windows
  THEN {}
  ELSE { id \in DOMAIN wm.windows \ { Unwrap(wm.focused_window) } :
           LET dx == Dx2(wm, id)
               dy == Dy2(wm, id)
           IN CASE d = "Up" -> dy < 0 /\ Magnitude(dy) > Magnitude(dx)
                [] d = "Down" -> dy > 0 /\ Magnitude(dy) > Magnitude(dx)
                [] d = "Left" -> dx < 0 /\ Magnitude(dx) > Magnitude(dy)
                [] d = "Right" -> dx > 0 /\ Magnitude(dx) > Magnitude(dy) }

FocusMoved == last.op = "focus_direction" /\ focused_window # last.wm.focused_window

\* C16: in a tiled layout, when focus Right has moved the focus from pane C
\* to pane P, focus Left from P selects a pane whose centre x is less than
\* or equal to that of C.  last.before is C when the step before this
\* focus Left was a focus Right that moved the focus to the pane this step
\* started from.
C16_RightThenLeft ==
  (/\ FocusMoved /\ IsSome(last.before)
   /\ Tiled(last.wm)) =>
    /\ IsSome(focused_window)
    /\ PaneCentre2(SelfWM, Unwrap(focused_window))[1]
         <= PaneCentre2(SelfWM, Unwrap(last.before))[1]

\* C17: focus_direction(d) moves the focus only to a pane other than the
\* current one that is eligible for d and nearest among the eligible ones;
\* when no pane is eligible the focus and the focused flags are unchanged.
C17_FocusNearestEligible ==
  last.op = "focus_direction" =>
    LET eligible == EligiblePanes(last.wm, last.direction)
    IN /\ FocusMoved =>
            /\ IsSome(focused_window)
            /\ focused_window # last.wm.focused_window
            /\ Unwrap(focused_window) \in eligible
            /\ \A e \in eligible :
                 Dist4(last.wm, Unwrap(focused_window)) <= Dist4(last.wm, e)
       /\ eligible = {} =>
            /\ focused_window = last.wm.focused_window
            /\ \A k \in DOMAIN windows : windows[k].focused = last.wm.windows[k].focused

\* The focus has moved to the nearer of two eligible panes.
C17_Witness ==
  /\ FocusMoved
  /\ \E e \in EligiblePanes(last.wm, last.direction) :
       Dist4(last.wm, e) > Dist4(last.wm, Unwrap(focused_window))

\* C18: while a pane is zoomed, focus_direction changes nothing.
C18_ZoomedFocusNoop ==
  (last.op = "focus_direction" /\ IsSome(last.wm.zoomed_window)) =>
    SelfWM = last.wm

\* A directional focus has been asked for while zoomed, with a second pane
\* in the map.
C18_Witness ==
  /\ last.op = "focus_direction" /\ IsSome(zoomed_window)
  /\ Cardinality(DOMAIN windows) >= 2
  /\ SelfWM = last.wm

\* C19: the pane selected depends on the layout, the focused pane and the
\* direction only: of eligible panes at the same smallest distance the one
\* first in input order (the one created first) is selected.
C19_TieByInputOrder ==
  (FocusMoved /\ Tiled(last.wm)) =>
    \A e \in EligiblePanes(last.wm, last.direction) :
      Dist4(last.wm, e) = Dist4(last.wm, Unwrap(focused_window))
        => Unwrap(focused_window) <= e

\* ------------------------------------------------------------ preset claims
\* Every first child is a leaf: the tree is a right-leaning chain.
RECURSIVE RightLeaning(_)
RightLeaning(node) ==
  \/ node.type = "Window"
  \/ (node.first.type = "Window" /\ RightLeaning(node.second))

\* The chain has direction d at every cut.
RECURSIVE CutsAlong(_, _)
CutsAlong(node, d) ==
  \/ node.type = "Window"
  \/ (node.direction = d /\ CutsAlong(node.first, d) /\ CutsAlong(node.second, d))

\* The extent of a rect along the direction of a preset.
Extent(r, op) == IF op = "horizontal" THEN r.width ELSE r.height

\* The chain of the horizontal or vertical preset over the given list.
PresetChain(op) ==
  /\ IsSome(layout)
  /\ RightLeaning(Unwrap(layout))
  /\ CutsAlong(Unwrap(layout), IF op = "horizontal" THEN "Horizontal" ELSE "Vertical")
  /\ window_ids(Unwrap(layout)) = order

\* C20: the horizontal (vertical) preset over n >= 2 panes builds a
\* right-leaning chain in list order in which all n panes have equal width
\* (height) up to one cell of rounding.
C20_PresetEqualShares ==
  (/\ last.op \in { "horizontal", "vertical" }
   /\ zoomed_window = None
   /\ Len(order) >= 2) =>
    /\ PresetChain(last.op)
    /\ \A i, j \in 1..Len(order) :
         Extent(leaf_rects(Unwrap(layout))[i], last.op)
           <= Extent(leaf_rects(Unwrap(layout))[j], last.op) + 1

\* A preset call of the given kind has just succeeded on a list of n ids.
PresetDone(op) == last.op = op /\ "rejected" \in DOMAIN last /\ ~last.rejected

\* The width and height of every leaf, in leaf order.
LeafSizes(node) ==
  [i \in 1..Len(leaf_rects(node)) |->
     << leaf_rects(node)[i].width, leaf_rects(node)[i].height >>]

\* The leaves are laid out in rows of cols cells: two leaves are in the same
\* row exactly when they have the same y, and then they have the same height.
InRowsOf(node, cols) ==
  LET r == leaf_rects(node)
  IN \A i, j \in 1..Len(r) :
       IF (i - 1) \div cols = (j - 1) \div cols
       THEN r[i].y = r[j].y /\ r[i].height = r[j].height
       ELSE r[i].y # r[j].y

\* C21: the grid preset over n > 3 panes places the panes in list order into
\* ceil(sqrt(n)) rows of ceil(n/rows) cells, only the last row shortened;
\* for 5 panes in an 80x24 area rows 0 and 1 hold two 40-wide cells, row 2
\* one 80-wide cell, and each row is 8 cells high.
C21_GridRowsAndCells ==
  (PresetDone("grid") /\ Len(last.ids) > 3) =>
    LET n == Len(last.ids)
        rows == CeilSqrt(n)
        cols == (n + rows - 1) \div rows
    IN /\ window_ids(Unwrap(layout)) = last.ids
       /\ InRowsOf(Unwrap(layout), cols)
       /\ (n = 5 /\ area = Rect(0, 0, 80, 24)) =>
            LeafSizes(Unwrap(layout)) =
              << << 40, 8 >>, << 40, 8 >>, << 40, 8 >>, << 40, 8 >>, << 80, 8 >> >>

\* The chain's cut number i (from 0) has ratio 1/(k - i).
RECURSIVE StackRatios(_, _, _)
StackRatios(node, i, k) ==
  \/ node.type = "Window"
  \/ /\ node.ratio[1] * (k - i) = node.ratio[2]
     /\ StackRatios(node.second, i + 1, k)

PresetOps == { "grid", "horizontal", "vertical", "main_stack" }

\* C23: after any preset succeeds on a list of distinct existing pane ids
\* the leaf set of the layout is exactly the listed ids, each listed pane's
\* stored rect is its leaf rect computed over area, and focused_window is the
\* first id of the list (the main id) with exactly that pane flagged focused.
C23_PresetInstalls ==
  (\E op \in PresetOps : PresetDone(op)) =>
    /\ IsSome(layout)
    /\ LeafIds(layout) = Range(last.ids)
    /\ LeafCount(Unwrap(layout)) = Len(last.ids)
    /\ \A id \in Range(last.ids) :
         Some(windows[id].size)
           = window_rect(calculate_layout(Unwrap(layout), area), id)
    /\ focused_window = Some(Head(last.ids))
    /\ \A k \in DOMAIN windows : windows[k].focused <=> k = Head(last.ids)

\* A preset has succeeded on two of three panes, moving the focus.
C23_Witness ==
  /\ \E op \in PresetOps : PresetDone(op)
  /\ Len(last.ids) >= 2
  /\ Len(last.ids) < Cardinality(DOMAIN windows)
  /\ Head(last.ids) # 1
  /\ focused_window = Some(Head(last.ids))

\* C24: a preset applied to an empty id list, or to a list containing an id
\* that is not in panes, leaves layout, focused_window, the panes' focused
\* flags and rects and the zoom state unchanged.
C24_RejectedPresetNoop ==
  (last.op \in PresetOps /\ "rejected" \in DOMAIN last /\ last.rejected) =>
    SelfWM = Unwrap(last.wm)

\* A preset has been rejected on a zoomed manager with a split layout.
C24_Witness ==
  /\ last.op \in PresetOps /\ "rejected" \in DOMAIN last /\ last.rejected
  /\ IsSome(layout) /\ Unwrap(layout).type = "Split"
  /\ IsSome(zoomed_window)
  /\ SelfWM = Unwrap(last.wm)

\* Every Split of the tree has a ratio strictly between 0 and 1.
RECURSIVE RatiosProper(_)
RatiosProper(node) ==
  \/ node.type = "Window"
  \/ /\ 0 < node.ratio[1] /\ node.ratio[1] < node.ratio[2]
     /\ RatiosProper(node.first)
     /\ RatiosProper(node.second)

\* C25: whatever ratio is passed to split_window, every Split stored in the
\* layout tree has a ratio strictly between 0 and 1 (a ratio of 0 or 1 is
\* clamped to epsilon and 1 - epsilon).
C25_SplitRatioClamped ==
  /\ IsSome(layout) => RatiosProper(Unwrap(layout))
  /\ IsSome(pre_zoom_layout) => RatiosProper(Unwrap(pre_zoom_layout))

\* C26: a split that references a pane id that is unknown or is not a leaf
\* of the current layout tree is a no-op: the panes map, the layout tree,
\* focused_window and the zoom state are unchanged.
C26_FailedSplitNoop ==
  (last.op = "split_window" /\ ~(last.known /\ last.leaf)) =>
    SelfWM = Unwrap(last.wm)

\* ------------------------------------------------------------- pane claims
\* The data of the Output events of a sequence of events, in order.
RECURSIVE OutputData(_)
OutputData(events) ==
  IF events = << >> THEN << >>
  ELSE (IF Head(events)[1] = "Output" THEN << Head(events)[2] >> ELSE << >>)
         \o OutputData(Tail(events))

\* C27: one call of pane.update() drains the session's event queue: every
\* event queued at the time of the call is consumed in order, Output bytes
\* are written to the buffer, and afterwards the queue is empty.
C27_UpdateDrains ==
  (pane.op = "update" /\ ~pane.closed) =>
    LET pre == Unwrap(pane.pre)
    IN /\ pane.receiver = << >>
       /\ pane.event_rx \in { None, Some(<< >>) }
       /\ \A d \in Range(OutputData(pre.receiver)) : d \in Range(pane.written)

\* C28: every chunk the reader thread has read from the PTY master of a
\* running pane is eventually written to the pane's scrollback buffer.
C28_ChunksReachScrollback ==
  \A k \in 1..MaxChunks :
    (pane.nread >= k) ~> (k \in Range(pane.written) \/ pane.state # Running)

\* C29: the session's queue never holds more than its capacity; a reader
\* that finds it full keeps its chunk and waits instead of dropping or
\* overwriting one, and can send once an element has been removed.
C29_QueueBoundedNoLoss ==
  /\ Len(pane.receiver) <= QueueCapacity
  /\ (pane.process /\ ~pane.closed) =>
       OutputData(pane.taken) \o OutputData(pane.receiver)
           \o OutputData(IF IsSome(pane.pending) THEN << Unwrap(pane.pending) >> ELSE << >>)
         = [k \in 1..pane.nread |-> k]
  /\ (pane.process /\ pane.reader \in { "send", "send_error" }) =>
       /\ IsSome(pane.pending)
       /\ (ENABLED ReaderSend) <=> (Len(pane.receiver) < QueueCapacity)

\* The reader has waited with its chunk at a full queue and read_event has
\* removed an element.
C29_Witness ==
  /\ pane.op = "read_event"
  /\ Len(Unwrap(pane.pre).receiver) = QueueCapacity
  /\ pane.reader = "send" /\ IsSome(pane.pending)
  /\ Len(pane.receiver) < QueueCapacity

\* C30: pane.close() kills the session and clears its handles, and sets the
\* state to Exited(-1) only if it was Running; a pane that was Exited(code),
\* Error or Ready keeps that state.
C30_CloseKeepsFinishedState ==
  pane.op = "close" =>
    /\ ~pane.process
    /\ pane.event_rx = None
    /\ pane.state = IF Unwrap(pane.pre).state = Running THEN Exited(-1)
                    ELSE Unwrap(pane.pre).state

\* ------------------------------------------------ invariants of the manager
\* C37: at most one pane has its focused flag set, and a pane's flag is set
\* if and only if its id equals focused_window.
C37_OneFocusedFlag ==
  /\ Cardinality({ id \in DOMAIN windows : windows[id].focused }) <= 1
  /\ \A id \in DOMAIN windows : windows[id].focused <=> (focused_window = Some(id))

\* The focus has been moved among several panes.
C37_Witness ==
  /\ last.op \in { "focus_next", "focus_prev" }
  /\ Cardinality(DOMAIN windows) >= 2
  /\ IsSome(focused_window) /\ windows[Unwrap(focused_window)].focused

\* C38: after every controller action, if focused_window is Some(id) then id
\* is a leaf of the currently visible layout tree.
C38_FocusedIsVisibleLeaf ==
  IsSome(focused_window) => Unwrap(focused_window) \in LeafIds(layout)

CycleLast(op, before, start, steps, visited, undo) ==
  [op |-> op, before |-> before, start |-> start, steps |-> steps,
   visited |-> visited, undo |-> undo]

CycleSplitWindow == SplitWindowUpTo(MaxCyclePanes)

\* Ctrl+Tab (App::focus_next_window)
CycleFocusNext ==
  /\ \E wm \in Frames :
       /\ IsSome(focused_id(wm))
       /\ LET current_id == Unwrap(focused_id(wm))
              after == app_focus_next_window(wm, current_id)
              running == last.op = "cycle_next" /\ last.steps < Panes(wm)
          IN /\ Commit(after)
             /\ last' = CycleLast("cycle_next", current_id,
                                  IF running THEN last.start ELSE current_id,
                                  IF running THEN last.steps + 1 ELSE 1,
                                  (IF running THEN last.visited ELSE {})
                                     \cup { Unwrap(after.focused_window) },
                                  None)
  /\ UNCHANGED << next_id, sidebar_active, buffer, buffer_last, pane, app, gui >>

\* Ctrl+Shift+Tab (WindowManager::focus_prev_window)
CycleFocusPrev ==
  /\ \E wm \in Frames :
       /\ IsSome(focused_id(wm))
       /\ Commit(focus_prev_window(wm))
       /\ last' = CycleLast("cycle_prev", Unwrap(focused_id(wm)), 0, 0, {},
                            IF last.op = "cycle_next" THEN Some(last.before) ELSE None)
  /\ UNCHANGED << next_id, sidebar_active, buffer, buffer_last, pane, app, gui >>

CycleNext ==
  \/ CycleSplitWindow
  \/ CycleFocusNext
  \/ CycleFocusPrev

CycleSpec == Init /\ [][CycleNext]_vars

\* The id that follows id in the id-ordered sequence of S, wrapping.
NextById(S, id) ==
  LET greater == { k \in S : k > id }
      from == IF greater = {} THEN S ELSE greater
  IN CHOOSE k \in from : \A j \in from : k <= j

\* The id that precedes id in the id-ordered sequence of S, wrapping.
PrevById(S, id) ==
  LET smaller == { k \in S : k < id }
      from == IF smaller = {} THEN S ELSE smaller
  IN CHOOSE k \in from : \A j \in from : k >= j

\* n consecutive focus-next steps visit every pane once and return to the
\* start; a focus-previous directly after a focus-next restores the focus.
FocusCycleClosed ==
  /\ (last.op = "cycle_next" /\ last.steps = Cardinality(DOMAIN windows)) =>
       /\ focused_window = Some(last.start)
       /\ last.visited = DOMAIN windows
  /\ (last.op = "cycle_prev" /\ IsSome(last.undo)) => focused_window = last.undo

\* C34: focus-next moves the focus to the pane with the next id in
\* id-ordered sequence, wrapping from the last to the first, and
\* focus-previous is its inverse: n focus-next steps visit every pane once
\* and return to the start, focus-next then focus-previous restores the focus.
C34_FocusNextById ==
  /\ last.op = "cycle_next" =>
       focused_window = Some(NextById(DOMAIN windows, last.before))
  /\ last.op = "cycle_prev" =>
       focused_window = Some(PrevById(DOMAIN windows, last.before))
  /\ FocusCycleClosed

\* C31: if PTY allocation or shell spawn fails while the controller creates
\* or splits a pane, the pane's state is set to Error(msg) (and the pane
\* stays in the panes map and in the layout tree).
C31_SpawnFailureIsError ==
  pane.op = "spawn_failed" => pane.state = ErrorState

\* --------------------------------------------- the GUI's LayoutManager
GuiOnly ==
  UNCHANGED << layout, windows, focused_window, area, zoomed_window,
               pre_zoom_layout, order, next_id, sidebar_active, last,
               buffer, buffer_last, pane, app >>

GuiLeaves(root) == IF root = None THEN {} ELSE gui_leaf_ids(Unwrap(root))

\* Message::CreateWindow: layout_manager.add_window(window_id)
GuiAddWindow ==
  /\ gui.next <= MaxGuiPanes
  /\ gui' = [root |-> gui_add_window(gui.root, gui.next), next |-> gui.next + 1,
             last |-> [op |-> "add_window"]]
  /\ GuiOnly

\* Message::SplitWindow(id, direction) for a window of the application:
\* layout_manager.split_window(&id, direction, new_id, 0.5)
GuiSplitWindow ==
  /\ gui.next <= MaxGuiPanes
  /\ \E id \in GuiLeaves(gui.root), direction \in SplitDirections :
       gui' = [root |-> gui_split_window(gui.root, id, direction, gui.next, << 1, 2 >>),
               next |-> gui.next + 1,
               last |-> [op |-> "split_window", id |-> id, direction |-> direction,
                         new_id |-> gui.next, pre |-> gui.root]]
  /\ GuiOnly

\* Message::CloseWindow(id): layout_manager.remove_window(&id)
GuiRemoveWindow ==
  /\ \E id \in GuiLeaves(gui.root) :
       gui' = [gui EXCEPT !.root = gui_remove_window(gui.root, id),
                          !.last = [op |-> "remove_window"]]
  /\ GuiOnly

GuiNext ==
  \/ GuiAddWindow
  \/ GuiSplitWindow
  \/ GuiRemoveWindow

GuiSpec == Init /\ [][GuiNext]_vars

\* The tree with the leaf id replaced by with, the rest as it is.
RECURSIVE ReplaceLeaf(_, _, _)
ReplaceLeaf(node, id, with) ==
  IF node.type = "Window"
  THEN IF node.id = id THEN with ELSE node
  ELSE [node EXCEPT !.first = ReplaceLeaf(node.first, id, with),
                    !.second = ReplaceLeaf(node.second, id, with)]

\* C36: in the GUI LayoutManager, split_window(id, dir, newId, ratio) on a
\* tree that contains the leaf id, at any depth and as first or second
\* child, replaces that leaf in place by Split(dir, ratio, Window(id),
\* Window(newId)) and leaves the rest of the tree unchanged, so newId is a
\* leaf of the tree afterwards.
C36_GuiSplitInPlace ==
  gui.last.op = "split_window" =>
    /\ gui.root = Some(ReplaceLeaf(Unwrap(gui.last.pre), gui.last.id,
                         GuiSplit(gui.last.direction, << 1, 2 >>,
                                  GuiWindow(gui.last.id), GuiWindow(gui.last.new_id))))
    /\ gui.last.new_id \in GuiLeaves(gui.root)

\* ------------------------------------------------- the keyboard, key by key
\* A crossterm KeyEvent: code is the variant of KeyCode, c the character of
\* KeyCode::Char (a one-character string, "" otherwise), mods the modifiers.
Key(code, c, mods) == [code |-> code, c |-> c, mods |-> mods]
Char(c) == Key("Char", c, "NONE")
Ctrl(c) == Key("Char", c, "CONTROL")

\* EventHandler::next on a key press: Ctrl+C and any 'q' become
\* AppEvent::Quit, every other key AppEvent::Key.
EventHandler_next(key) ==
  IF \/ (key.code = "Char" /\ key.c = "c" /\ key.mods = "CONTROL")
     \/ (key.code = "Char" /\ key.c = "q")
  THEN "Quit" ELSE "Key"

\* The arm of the match of App::handle_shortcut a key takes; "none" is the
\* arm `_ => false`.
Shortcut(key) ==
  CASE key.code = "Char" /\ key.c = "n" /\ key.mods = "CONTROL" -> "create"
    [] key.code = "Char" /\ key.c = "h" /\ key.mods = "CONTROL" -> "split_h"
    [] key.code = "Char" /\ key.c = "v" /\ key.mods = "CONTROL" -> "split_v"
    [] key.code = "Tab" /\ key.mods = "CONTROL" -> "focus_next"
    [] key.code = "BackTab" /\ key.mods = "CONTROL|SHIFT" -> "focus_prev"
    [] key.code = "Up" /\ key.mods = "CONTROL" -> "Up"
    [] key.code = "Down" /\ key.mods = "CONTROL" -> "Down"
    [] key.code = "Left" /\ key.mods = "CONTROL" -> "Left"
    [] key.code = "Right" /\ key.mods = "CONTROL" -> "Right"
    [] key.code = "Char" /\ key.c = "z" /\ key.mods = "CONTROL" -> "zoom"
    [] key.code = "Char" /\ key.c = "g" /\ key.mods = "CONTROL" -> "grid"
    [] key.code = "Char" /\ key.c = "H" /\ key.mods = "CONTROL|SHIFT" -> "horizontal"
    [] key.code = "Char" /\ key.c = "V" /\ key.mods = "CONTROL|SHIFT" -> "vertical"
    [] key.code = "Char" /\ key.c = "m" /\ key.mods = "CONTROL" -> "main"
    [] key.code = "Char" /\ key.c = "w" /\ key.mods = "CONTROL" -> "close"
    [] key.code = "Char" /\ key.c = "b" /\ key.mods = "CONTROL" -> "sidebar"
    [] OTHER -> "none"

\* What a handler leaves: the manager, the sidebar, whether a fresh id was
\* used, and whether the loop keeps running or was unwound by a panic.
Effect(wm, sidebar, used, running, panicked) ==
  [wm |-> wm, sidebar |-> sidebar, used |-> used, running |-> running,
   panicked |-> panicked]

\* The body of the arm of handle_shortcut (and of the command or sidebar
\* icon with the same body); errors are printed and dropped.
shortcut_effect(name, wm, sidebar, new_id, ord, spawn_ok) ==
  LET same == Effect(wm, sidebar, FALSE, TRUE, FALSE)
      focused == focused_id(wm)
  IN CASE name = "create" ->
            Effect(app_create_window(wm, new_id, ord), sidebar, TRUE, TRUE, FALSE)
       [] name \in { "split_h", "split_v" } ->
            IF focused = None THEN same
            ELSE Effect(app_split_window(wm, Unwrap(focused),
                                         IF name = "split_h" THEN "Horizontal"
                                         ELSE "Vertical",
                                         new_id, ord, spawn_ok),
                        sidebar, TRUE, TRUE, FALSE)
       [] name = "focus_next" ->
            IF focused = None THEN same
            ELSE [same EXCEPT !.wm = app_focus_next_window(wm, Unwrap(focused))]
       [] name = "focus_prev" -> [same EXCEPT !.wm = focus_prev_window(wm)]
       [] name \in Directions -> [same EXCEPT !.wm = focus_direction(wm, name)]
       [] name = "zoom" ->
            IF focused = None THEN same
            ELSE [same EXCEPT !.wm = zoom_window(wm, Unwrap(focused))]
       [] name = "grid" ->
            IF wm.order = << >> THEN same
            ELSE [same EXCEPT !.wm = apply_grid_layout(wm, wm.order)]
       [] name = "horizontal" ->
            IF wm.order = << >> THEN same
            ELSE [same EXCEPT !.wm = apply_horizontal_layout(wm, wm.order)]
       [] name = "vertical" ->
            IF wm.order = << >> THEN same
            ELSE [same EXCEPT !.wm = apply_vertical_layout(wm, wm.order)]
       [] name = "main" ->
            IF focused = None THEN same
            ELSE [same EXCEPT !.wm =
                    apply_main_and_stack_layout(wm, Unwrap(focused),
                                                Without(wm.order, Unwrap(focused)))]
       [] name = "close" ->
            IF focused = None THEN same
            ELSE [same EXCEPT !.wm = close_window(wm, Unwrap(focused))]
       [] name = "sidebar" -> [same EXCEPT !.sidebar = ~sidebar]
       [] OTHER -> same

\* str::split_whitespace on a string of one-character strings.
RECURSIVE split_whitespace_from(_, _)
split_whitespace_from(str, word) ==
  IF str = << >> THEN (IF word = << >> THEN << >> ELSE << word >>)
  ELSE IF Head(str) = " "
  THEN (IF word = << >> THEN << >> ELSE << word >>)
         \o split_whitespace_from(Tail(str), << >>)
  ELSE split_whitespace_from(Tail(str), Append(word, Head(str)))

split_whitespace(str) == split_whitespace_from(str, << >>)

\* App::execute_command on the command buffer (the push to the command
\* history is not modelled).
execute_command(command, wm, sidebar, new_id, ord, spawn_ok) ==
  LET parts == split_whitespace(command)
      same == Effect(wm, sidebar, FALSE, TRUE, FALSE)
      run(name) == shortcut_effect(name, wm, sidebar, new_id, ord, spawn_ok)
  IN IF parts = << >> THEN same
     ELSE LET cmd == parts[1]
          IN CASE cmd \in { << "q" >>, << "q", "u", "i", "t" >> } ->
                    [same EXCEPT !.running = FALSE]
               [] cmd = << "n", "e", "w" >> -> run("create")
               [] cmd = << "s", "p", "l", "i", "t" >> ->
                    IF Len(parts) > 1 /\ parts[2] = << "h" >>
                    THEN run("split_h") ELSE run("split_v")
               [] cmd = << "l", "a", "y", "o", "u", "t" >> ->
                    IF Len(parts) > 1 /\ wm.order # << >>
                    THEN CASE parts[2] = << "g", "r", "i", "d" >> -> run("grid")
                           [] parts[2] \in { << "h" >>,
                                << "h", "o", "r", "i", "z", "o", "n", "t", "a", "l" >> } ->
                                run("horizontal")
                           [] parts[2] \in { << "v" >>,
                                << "v", "e", "r", "t", "i", "c", "a", "l" >> } ->
                                run("vertical")
                           [] parts[2] \in { << "m" >>, << "m", "a", "i", "n" >> } ->
                                run("main")
                           [] OTHER -> same
                    ELSE same
               [] cmd = << "z", "o", "o", "m" >> -> run("zoom")
               [] cmd = << "c", "l", "o", "s", "e" >> -> run("close")
               [] cmd = << "h", "e", "l", "p" >> ->
                    LET r == display_help(wm, new_id, ord)
                    IN Effect(r.wm, sidebar, TRUE, TRUE, r.panicked)
               [] cmd = << "s", "i", "d", "e", "b", "a", "r" >> -> run("sidebar")
               [] OTHER -> same

\* `c as u8` for the characters of the keys below.
ByteOf(c) ==
  CASE c = "h" -> 104 [] c = "e" -> 101 [] c = "l" -> 108 [] c = "p" -> 112
    [] c = "n" -> 110 [] c = "w" -> 119 [] c = "z" -> 122 [] c = ":" -> 58
    [] c = "q" -> 113 [] c = "c" -> 99 [] OTHER -> 0

\* The bytes the Normal branch of handle_key_event makes of a key.
key_bytes(key) ==
  CASE key.code = "Char" -> << ByteOf(key.c) >>
    [] key.code = "Enter" -> << LF >>
    [] key.code = "Tab" -> << HT >>
    [] key.code = "Backspace" -> << 8 >>
    [] key.code = "Esc" -> << ESC >>
    [] OTHER -> << >>

\* The result of handle_key_event: the fields of App it sets, the effect on
\* the manager, and for the history whether a shortcut arm ran, the bytes
\* passed to send_input and the command passed to execute_command.  The
\* history of a key (app.ev) adds the mode before the key, the command
\* buffer before it when the mode was Command, whether a pane was focused,
\* and whether the layout and the focus are as the draw left them.
Handled(state, command_buffer, effect, shortcut, sent, executed) ==
  [state |-> state, command_buffer |-> command_buffer, effect |-> effect,
   shortcut |-> shortcut, sent |-> sent, executed |-> executed]

\* App::handle_key_event
handle_key_event(a, key, wm, sidebar, new_id, ord, spawn_ok) ==
  LET same == Effect(wm, sidebar, FALSE, TRUE, FALSE)
  IN IF a.state = "Normal"
     THEN IF Shortcut(key) # "none"
          THEN Handled(a.state, a.command_buffer,
                       shortcut_effect(Shortcut(key), wm, sidebar, new_id, ord, spawn_ok),
                       TRUE, << >>, None)
          ELSE IF key.code = "Char" /\ key.c = ":"
          THEN Handled("Command", << >>, same, FALSE, << >>, None)
          ELSE Handled(a.state, a.command_buffer, same, FALSE,
                       IF focused_id(wm) = None THEN << >> ELSE key_bytes(key), None)
     ELSE CASE key.code = "Char" ->
                 Handled(a.state, Append(a.command_buffer, key.c), same, FALSE, << >>, None)
            [] key.code = "Backspace" ->
                 Handled(a.state,
                         IF a.command_buffer = << >> THEN << >>
                         ELSE SubSeq(a.command_buffer, 1, Len(a.command_buffer) - 1),
                         same, FALSE, << >>, None)
            [] key.code = "Enter" ->
                 LET e == execute_command(a.command_buffer, wm, sidebar, new_id, ord,
                                          spawn_ok)
                 IN Handled(IF e.panicked THEN a.state ELSE "Normal", a.command_buffer,
                            e, FALSE, << >>, Some(a.command_buffer))
            [] key.code = "Esc" ->
                 Handled("Normal", a.command_buffer, same, FALSE, << >>, None)
            [] OTHER -> Handled(a.state, a.command_buffer, same, FALSE, << >>, None)

\* The keys pressed: the letters of "help", ':' and 'q', the keys with a
\* branch of their own, an arrow key, and some shortcuts.
CommandChars == { "h", "e", "l", "p" }
RawKeys ==
  { Char(c) : c \in CommandChars \cup { ":", "q" } }
    \cup { Key(code, "", "NONE") : code \in { "Enter", "Esc", "Backspace", "Up" } }
    \cup { Ctrl(c) : c \in { "w", "c" } }

\* One iteration of the loop of App::run on a key press: the draw, then
\* events.next() and the handler of the event.
KeyPress ==
  /\ \E wm \in Frames, key \in RawKeys :
       IF EventHandler_next(key) = "Quit"
       THEN /\ Commit(wm)
            /\ app' = [app EXCEPT !.running = FALSE,
                                  !.ev = [kind |-> "quit", key |-> key]]
            /\ UNCHANGED << next_id, sidebar_active >>
       ELSE \E h \in { handle_key_event(app, key, wm, sidebar_active, next_id, ord,
                                        spawn_ok) :
                         ord \in Orders(next_id), spawn_ok \in BOOLEAN } :
               /\ h.effect.used => next_id <= MaxKeyPanes
               /\ Len(h.command_buffer) <= MaxCommandLen
               /\ Commit(h.effect.wm)
               /\ next_id' = IF h.effect.used THEN next_id + 1 ELSE next_id
               /\ sidebar_active' = h.effect.sidebar
               /\ app' = [state |-> h.state, running |-> h.effect.running,
                          command_buffer |-> h.command_buffer,
                          panicked |-> h.effect.panicked,
                          ev |-> [kind |-> "key", key |-> key, mode |-> app.state,
                                  buffer |-> IF app.state = "Command"
                                             THEN app.command_buffer ELSE << >>,
                                  shortcut |-> h.shortcut, sent |-> h.sent,
                                  executed |-> h.executed,
                                  focused |-> focused_id(wm) # None,
                                  same_wm |-> /\ h.effect.wm.layout = wm.layout
                                              /\ h.effect.wm.focused_window
                                                   = wm.focused_window]]
  /\ last' = Plain("key")
  /\ UNCHANGED << buffer, buffer_last, pane, gui >>

\* One iteration of the loop on AppEvent::Tick
KeyTick ==
  /\ \E wm \in Frames : Commit(wm)
  /\ app' = [app EXCEPT !.ev = [kind |-> "tick"]]
  /\ last' = Plain("tick")
  /\ UNCHANGED << next_id, sidebar_active, buffer, buffer_last, pane, gui >>

KeyNext ==
  \/ KeyPress
  \/ KeyTick

KeySpec == Init /\ [][KeyNext]_vars

\* C32: in Normal mode, every key event that matches no shortcut and is not
\* ':' is translated and forwarded as bytes to the focused pane, and leaves
\* mode, running, layout and focus unchanged; ':' enters Command mode with an
\* empty command buffer.
C32_NormalKeyForwarded ==
  /\ (app.ev.kind = "key" /\ app.ev.mode = "Normal" /\ ~app.ev.shortcut) =>
        IF app.ev.key.code = "Char" /\ app.ev.key.c = ":"
        THEN app.state = "Command" /\ app.command_buffer = << >>
        ELSE /\ app.ev.focused => app.ev.sent # << >>
             /\ app.state = "Normal" /\ app.running /\ app.ev.same_wm
  /\ (/\ app.ev.kind = "quit" /\ app.state = "Normal"
      /\ app.ev.key.mods = "NONE" /\ Shortcut(app.ev.key) = "none") =>
        app.running

\* The outcome of a key that App::handle_key_event handled in Command mode:
\* nothing sent or taken as a shortcut, and the branch of its key code.
CommandKeyHandled ==
  (app.ev.kind = "key" /\ app.ev.mode = "Command") =>
    /\ app.ev.sent = << >> /\ ~app.ev.shortcut
    /\ CASE app.ev.key.code = "Char" ->
              /\ app.command_buffer = Append(app.ev.buffer, app.ev.key.c)
              /\ app.state = "Command" /\ app.ev.executed = None /\ app.ev.same_wm
         [] app.ev.key.code = "Backspace" ->
              /\ app.command_buffer =
                   IF app.ev.buffer = << >> THEN << >>
                   ELSE SubSeq(app.ev.buffer, 1, Len(app.ev.buffer) - 1)
              /\ app.state = "Command" /\ app.ev.executed = None /\ app.ev.same_wm
         [] app.ev.key.code = "Esc" ->
              app.state = "Normal" /\ app.ev.executed = None /\ app.ev.same_wm
         [] app.ev.key.code = "Enter" ->
              app.state = "Normal" /\ app.ev.executed = Some(app.ev.buffer)
         [] OTHER -> TRUE

\* C33: in Command mode, character keys append to the command buffer and
\* Backspace removes its last character; Escape returns to Normal mode
\* without executing anything; Enter executes the buffered command exactly
\* once and returns to Normal mode; no key is forwarded to a pane or handled
\* as a shortcut.
C33_CommandModeKeys ==
  /\ CommandKeyHandled
  /\ (/\ app.ev.kind = "quit" /\ app.state = "Command"
      /\ app.ev.key.code = "Char" /\ app.ev.key.mods = "NONE") =>
        /\ app.running
        /\ app.command_buffer # << >>
        /\ app.command_buffer[Len(app.command_buffer)] = app.ev.key.c

\* The last event was a quit: the host's quit event, or the command q|quit.
QuitEvent ==
  \/ app.ev.kind = "quit"
  \/ /\ app.ev.kind = "key"
     /\ IsSome(app.ev.executed)
     /\ split_whitespace(Unwrap(app.ev.executed)) # << >>
     /\ split_whitespace(Unwrap(app.ev.executed))[1]
          \in { << "q" >>, << "q", "u", "i", "t" >> }

\* C35: a failing layout or pane action never stops the controller loop:
\* running stays true after it, and the loop ends only through the q|quit
\* command or a host quit event.
C35_OnlyQuitStopsLoop == ~Alive => QuitEvent

====
